---- MODULE Spec2Model ----
(***************************************************************************)
(* State-machine model of the prompt-discipline core:                      *)
(*   - the session log parser        (mcp-server/src/lib/embeddings.ts)    *)
(*   - the prompt triage classifier  (unnamed/part_010, src/lib/config.ts) *)
(*   - the scorecard engine and the persisted baseline (unnamed/part_011)  *)
(* Strings are TLA+ strings, taken apart with Len and SubSeq.              *)
(***************************************************************************)
EXTENDS Integers, Sequences, FiniteSets, TLC

VARIABLES
    file,          \* parser: the lines of the session file being parsed
    fileExists,    \* parser: whether there is a file at the path given to parseSession
    parseResult,   \* parser: outcome of parseSession, or NotRun
    asyncResult,   \* parser: outcome of parseSessionAsync, or NotRun
    prompt,        \* triage: the prompt under classification
    cfg,           \* triage: the triage configuration
    triageResult,  \* triage: results of both triagePrompt implementations
    sessions,      \* scorecard: the ParsedSession list given to computeScorecard
    scorecard,     \* scorecard: the computed Scorecard, or NotRun
    categories,    \* scorecard: the category scores computeScorecard aggregates
    baselineFile,  \* the persisted baseline.json of the project (NoFile when absent)
    inv,           \* per generate_scorecard invocation: handler position and locals
    history,       \* overall scores whose baseline update has been saved, in order
    dailyScores,   \* trend: the DailyScore list scoreDailyData returned
    trendReport,   \* trend: buildTrendReport's halves and category trends, or NotRun
    clock,         \* timeline: the current time, in ticks after 1970-01-01T00:00:00Z
    sessionLog,    \* timeline: timestamps of the lines of the project's session file
    gitLog,        \* timeline: timestamps of the project's commits, oldest first
    table,         \* timeline: the rows of the LanceDB events table
    indexed_projects, \* timeline: config.indexed_projects, keyed by project
    lastRun,       \* timeline: what the latest onboard_project run was given and did
    counterFile,   \* hook: /tmp/prompt-discipline-<session>.count
    hook,          \* hook: position and COUNT of each running session-health.sh
    hookStarted,   \* hook: number of hook invocations started so far
    hookExited,    \* hook: number of hook invocations that have exited
    emitted        \* hook: per threshold, how many times its message was printed

parserVars == <<file, fileExists, parseResult, asyncResult>>
triageVars == <<prompt, cfg, triageResult>>
scoreVars == <<sessions, scorecard, categories>>
baselineVars == <<baselineFile, inv, history>>
trendVars == <<dailyScores, trendReport>>
timelineVars == <<clock, sessionLog, gitLog, table, indexed_projects, lastRun>>
hookVars == <<counterFile, hook, hookStarted, hookExited, emitted>>
otherVars == <<trendVars, timelineVars, hookVars>>

vars == <<parserVars, triageVars, scoreVars, baselineVars, otherVars>>

NotRun == [status |-> "not-run"]

\* ------------------------------------------------------------------------
\* Bounds
\* ------------------------------------------------------------------------
MaxLines == 3
MaxPhrases == 3
MaxEvents == 3
MaxSessions == 2
MaxInvocations == 3
MaxProcs == 2
MaxDays == 3
MaxClock == 3
MaxRuns == 3
MaxHooks == 2
MaxCalls == 3

\* ------------------------------------------------------------------------
\* String helpers (JavaScript string semantics on ASCII text)
\* ------------------------------------------------------------------------
UpperAlpha == "ABCDEFGHIJKLMNOPQRSTUVWXYZ"
LowerAlpha == "abcdefghijklmnopqrstuvwxyz"
Digits == "0123456789"

CharAt(s, i) == SubSeq(s, i, i)

CharsOf(s) == { CharAt(s, i) : i \in 1..Len(s) }

Range(q) == { q[k] : k \in 1..Len(q) }

WordChars == CharsOf(UpperAlpha) \cup CharsOf(LowerAlpha) \cup CharsOf(Digits) \cup {"_"}

WhiteSpace == {" ", "\n", "\t", "\r"}

UpperChars == CharsOf(UpperAlpha)

LowerMap ==
    [c \in UpperChars |-> CharAt(LowerAlpha, CHOOSE k \in 1..26 : CharAt(UpperAlpha, k) = c)]

LowerChar(c) == IF c \in UpperChars THEN LowerMap[c] ELSE c

\* s[a..b] in lower case, halving the range to keep the recursion shallow
RECURSIVE LowerRange(_, _, _)
LowerRange(s, a, b) ==
    IF a > b THEN ""
    ELSE IF a = b THEN LowerChar(CharAt(s, a))
    ELSE LET m == (a + b) \div 2
         IN  LowerRange(s, a, m) \o LowerRange(s, m + 1, b)

toLowerCase(s) == LowerRange(s, 1, Len(s))

\* String.prototype.includes
Includes(text, t) ==
    \/ t = ""
    \/ \E s \in {text} :
          \E k \in 1..(Len(s) - Len(t) + 1) :
              CharAt(s, k) = CharAt(t, 1) /\ SubSeq(s, k, k + Len(t) - 1) = t

\* position k of s is a regex word boundary \b (between s[k-1] and s[k])
WordBoundary(s, k) ==
    LET before == k > 1 /\ CharAt(s, k - 1) \in WordChars
        after  == k <= Len(s) /\ CharAt(s, k) \in WordChars
    IN  before # after

\* the literal w stands at position k of t between two word boundaries
WordAt(t, k, w) ==
    /\ k >= 1 /\ k + Len(w) - 1 <= Len(t)
    /\ CharAt(t, k) = CharAt(w, 1)
    /\ SubSeq(t, k, k + Len(w) - 1) = w
    /\ WordBoundary(t, k)
    /\ WordBoundary(t, k + Len(w))

\* /\bw\b/i .test(s), for a literal w
MatchWordI(s, w) ==
    \E t \in {toLowerCase(s)} :
        \E k \in 1..(Len(t) - Len(w) + 1) : WordAt(t, k, w)

Min(a, b) == IF a <= b THEN a ELSE b
Max(a, b) == IF a >= b THEN a ELSE b

\* String.prototype.slice(0, n)
SliceTo(s, n) == SubSeq(s, 1, Min(n, Len(s)))

\* text.split("\n")[0]
FirstLine(s) ==
    IF \E k \in 1..Len(s) : CharAt(s, k) = "\n"
    THEN SubSeq(s, 1, (CHOOSE k \in 1..Len(s) :
                          /\ CharAt(s, k) = "\n"
                          /\ \A j \in 1..(k - 1) : CharAt(s, j) # "\n") - 1)
    ELSE s

\* ------------------------------------------------------------------------
\* Session log parser (embeddings.ts)
\* ------------------------------------------------------------------------
CORRECTION_PATTERNS == <<"no", "wrong", "not that", "i meant", "actually", "instead", "undo">>

isCorrection(text) ==
    \E k \in 1..Len(CORRECTION_PATTERNS) : MatchWordI(text, CORRECTION_PATTERNS[k])

\* JSON content shapes: a plain string, a list of typed blocks, or absent.
\* A block of type "null" is the JSON literal null inside the list.
Str(s) == [shape |-> "string", str |-> s, blocks |-> <<>>]
Blocks(bs) == [shape |-> "blocks", str |-> "", blocks |-> bs]
Absent == [shape |-> "absent", str |-> "", blocks |-> <<>>]
TextBlock(t) == [type |-> "text", text |-> t, name |-> "", input |-> ""]
ToolUse(n, a) == [type |-> "tool_use", text |-> "", name |-> n, input |-> a]
NullBlock == [type |-> "null", text |-> "", name |-> "", input |-> ""]

\* b.type on a null element raises TypeError
ThrowsOnBlocks(content) ==
    /\ content.shape = "blocks"
    /\ \E k \in 1..Len(content.blocks) : content.blocks[k].type = "null"

RECURSIVE JoinTexts(_)
JoinTexts(bs) ==
    IF bs = <<>> THEN ""
    ELSE IF Head(bs).type = "text"
         THEN IF \E k \in 2..Len(bs) : bs[k].type = "text"
              THEN Head(bs).text \o "\n" \o JoinTexts(Tail(bs))
              ELSE Head(bs).text
         ELSE JoinTexts(Tail(bs))

extractText(content) ==
    IF content.shape = "string" THEN content.str
    ELSE IF content.shape = "blocks" THEN JoinTexts(content.blocks)
    ELSE ""

extractToolUseBlocks(content) ==
    IF content.shape # "blocks" THEN <<>>
    ELSE SelectSeq(content.blocks, LAMBDA b : b.type = "tool_use")

FallbackTs == "2026-01-01T00:00:00.000Z"

\* the record's timestamp field: "" absent, "garbage" an unparseable string,
\* anything else an ISO instant
normalizeTimestamp(ts, fallback) ==
    IF ts = "" THEN fallback
    ELSE IF ts = "garbage" THEN fallback
    ELSE ts

preview(text) ==
    LET line == FirstLine(text)
    IN  IF Len(line) > 120 THEN SliceTo(line, 120) \o "..." ELSE line

makeEvent(type, content, ts, branch, sessionId, lineNum, metadata) ==
    [type |-> type, content |-> content, content_preview |-> preview(content),
     timestamp |-> ts, branch |-> branch, session_id |-> sessionId,
     source_line |-> lineNum, metadata |-> metadata]

\* JSON.stringify(obj.content ?? "")
StringifyContent(content) ==
    IF content.shape = "blocks" THEN "[blocks]" ELSE "\"" \o content.str \o "\""

ToolEvents(tools, ts, branch, sessionId, lineNum) ==
    [k \in 1..Len(tools) |->
        LET name == IF tools[k].name = "" THEN "unknown" ELSE tools[k].name
            isSub == name = "Task" \/ name = "dispatch_agent"
        IN  makeEvent(IF isSub THEN "sub_agent_spawn" ELSE "tool_call",
                      name \o ": " \o SliceTo(tools[k].input, 100),
                      ts, branch, sessionId, lineNum,
                      "{\"tool\":\"" \o name \o "\"}")]

correctionGate_ungated(lastType, text) == isCorrection(text)

\* const isCorr = lastType === "assistant" && isCorrection(text)
correctionGate(lastType, text) == lastType = "assistant" /\ isCorrection(text)

processRecord(obj, branch, sessionId, lineNum, lastType) ==
    LET ts == normalizeTimestamp(obj.timestamp, FallbackTs)
        ev(type, content, metadata) ==
            makeEvent(type, content, ts, branch, sessionId, lineNum, metadata)
    IN  IF obj.type = "user" THEN
            IF ThrowsOnBlocks(obj.msgContent) THEN [threw |-> TRUE, events |-> <<>>]
            ELSE LET text == extractText(obj.msgContent)
                     isCorr == correctionGate(lastType, text)
                 IN  IF text = "" THEN [threw |-> FALSE, events |-> <<>>]
                     ELSE [threw |-> FALSE,
                           events |-> <<ev(IF isCorr THEN "correction" ELSE "prompt", text, "{}")>>]
        ELSE IF obj.type = "assistant" THEN
            IF ThrowsOnBlocks(obj.msgContent) THEN [threw |-> TRUE, events |-> <<>>]
            ELSE LET text == extractText(obj.msgContent)
                     first == IF text # ""
                              THEN <<ev("assistant", text, "{\"model\":\"\"}")>>
                              ELSE <<>>
                 IN  [threw |-> FALSE,
                      events |-> first \o ToolEvents(extractToolUseBlocks(obj.msgContent),
                                                     ts, branch, sessionId, lineNum)]
        ELSE IF obj.type = "tool_result" THEN
            LET isErr == \/ obj.is_error
                         \/ (obj.content.shape = "string"
                             /\ Includes(toLowerCase(obj.content.str), "stderr"))
            IN  IF ~isErr THEN [threw |-> FALSE, events |-> <<>>]
                ELSE IF ThrowsOnBlocks(obj.content) THEN [threw |-> TRUE, events |-> <<>>]
                ELSE LET t == extractText(obj.content)
                         text == IF t # "" THEN t
                                 ELSE SliceTo(StringifyContent(obj.content), 200)
                     IN  [threw |-> FALSE,
                          events |-> <<ev("error", text, "{\"tool_use_id\":\"\"}")>>]
        ELSE IF obj.type = "system" THEN
            LET c == IF obj.msgContent.shape # "absent" THEN obj.msgContent ELSE obj.content
            IN  IF ThrowsOnBlocks(c) THEN [threw |-> TRUE, events |-> <<>>]
                ELSE LET text == extractText(c)
                     IN  IF Includes(toLowerCase(text), "compact") \/ obj.subtype = "compaction"
                         THEN [threw |-> FALSE,
                               events |-> <<ev("compaction",
                                               IF text # "" THEN text ELSE "context compacted",
                                               "{}")>>]
                         ELSE [threw |-> FALSE, events |-> <<>>]
        ELSE [threw |-> FALSE, events |-> <<>>]

FileBase == "session-1"

ParseStart ==
    [branch |-> "", sessionId |-> FileBase, lastType |-> "", events |-> <<>>,
     stderr |-> <<>>, threw |-> FALSE]

\* one iteration of the loop of parseLinesSync over line number lineNum
parseIter(line, lineNum, st) ==
    IF line.raw = "blank" THEN st
    ELSE IF line.raw = "malformed" THEN [st EXCEPT !.stderr = Append(@, lineNum)]
    ELSE IF line.isNull THEN [st EXCEPT !.threw = TRUE]
    ELSE IF line.type = "summary"
         THEN [st EXCEPT !.branch = line.gitBranch,
                         !.sessionId = IF line.sessionId # "" THEN line.sessionId ELSE @]
    ELSE LET r == processRecord(line, st.branch, st.sessionId, lineNum, st.lastType)
         IN  IF r.threw THEN [st EXCEPT !.threw = TRUE]
             ELSE [st EXCEPT !.lastType = IF line.type \in {"user", "assistant"}
                                          THEN line.type ELSE @,
                             !.events = @ \o r.events]

RECURSIVE parseLoop(_, _, _)
parseLoop(lines, k, st) ==
    IF k > Len(lines) \/ st.threw THEN st
    ELSE parseLoop(lines, k + 1, parseIter(lines[k], k, st))

parseLinesSync(lines) ==
    LET st == parseLoop(lines, 1, ParseStart)
    IN  IF st.threw THEN [status |-> "threw", events |-> <<>>, stderr |-> st.stderr]
        ELSE [status |-> "returned", events |-> st.events, stderr |-> st.stderr]

\* the white space JSON.parse accepts around a value; String.prototype.trim
\* strips these and also form feed, vertical tab, U+00A0 and the byte order
\* mark U+FEFF
JsonWhiteSpace == {" ", "\t", "\n", "\r"}

\* one iteration of the loop of parseSessionAsync: the line is tested with
\* trim() but handed to JSON.parse as it is, and a summary record goes
\* through processRecord before branch and sessionId are updated
parseIterAsync(line, lineNum, st) ==
    IF line.raw = "blank" THEN st
    ELSE IF line.raw = "malformed" \/ ~(CharsOf(line.lead) \subseteq JsonWhiteSpace)
         THEN [st EXCEPT !.stderr = Append(@, lineNum)]
    ELSE IF line.isNull THEN [st EXCEPT !.threw = TRUE]
    ELSE LET r == processRecord(line, st.branch, st.sessionId, lineNum, st.lastType)
         IN  IF r.threw THEN [st EXCEPT !.threw = TRUE]
             ELSE [st EXCEPT !.branch = IF line.type = "summary" THEN line.gitBranch ELSE @,
                             !.sessionId = IF line.type = "summary" /\ line.sessionId # ""
                                           THEN line.sessionId ELSE @,
                             !.lastType = IF line.type \in {"user", "assistant"}
                                          THEN line.type ELSE @,
                             !.events = @ \o r.events]

RECURSIVE asyncLoop(_, _, _)
asyncLoop(lines, k, st) ==
    IF k > Len(lines) \/ st.threw THEN st
    ELSE asyncLoop(lines, k + 1, parseIterAsync(lines[k], k, st))

\* parseSessionAsync: statSync, then the loop over the lines readline yields
parseSessionAsync(exists, lines) ==
    IF ~exists THEN [status |-> "threw", events |-> <<>>, stderr |-> <<>>]
    ELSE LET st == asyncLoop(lines, 1, ParseStart)
         IN  IF st.threw THEN [status |-> "threw", events |-> <<>>, stderr |-> st.stderr]
             ELSE [status |-> "returned", events |-> st.events, stderr |-> st.stderr]

\* ---- the lines a session file is drawn from ----
Json(type, msgContent) ==
    [raw |-> "json", lead |-> "", isNull |-> FALSE, type |-> type, msgContent |-> msgContent,
     content |-> Absent, is_error |-> FALSE, subtype |-> "", gitBranch |-> "",
     sessionId |-> "", timestamp |-> ""]

BlankLine == [Json("", Absent) EXCEPT !.raw = "blank"]
MalformedLine == [Json("", Absent) EXCEPT !.raw = "malformed"]
NullLine == [Json("", Absent) EXCEPT !.isNull = TRUE]

LineSamples ==
    { BlankLine, MalformedLine, NullLine,
      Json("user", Str("no, use the other file")),
      Json("user", Str("add a test for src/auth/jwt.ts")),
      Json("user", Str("Revert the last change")),
      [Json("user", Str("rename the helper")) EXCEPT !.lead = "\f"],
      [Json("assistant", Str("ok")) EXCEPT !.lead = " "],
      Json("user", Blocks(<<TextBlock("Actually"), TextBlock("do it instead")>>)),
      Json("user", Str("")),
      Json("user", Blocks(<<NullBlock>>)),
      [Json("assistant", Str("done")) EXCEPT !.timestamp = "2026-02-03T04:05:06.000Z"],
      Json("assistant", Blocks(<<ToolUse("Read", "{\"file_path\":\"src/a.ts\"}"),
                                 ToolUse("Task", "{}")>>)),
      [Json("tool_result", Absent) EXCEPT !.is_error = TRUE, !.content = Str("ENOENT")],
      [Json("tool_result", Absent) EXCEPT !.content = Str("ok")],
      [Json("system", Absent) EXCEPT !.content = Str("Context compacted"),
                                     !.timestamp = "garbage"],
      [Json("summary", Absent) EXCEPT !.gitBranch = "main", !.sessionId = "s-override"],
      Json("progress", Absent) }

RECURSIVE SeqsUpTo(_, _)
SeqsUpTo(S, n) ==
    IF n = 0 THEN { <<>> }
    ELSE LET shorter == SeqsUpTo(S, n - 1)
         IN  shorter \cup { Append(q, x) : q \in { r \in shorter : Len(r) = n - 1 }, x \in S }

ParserIdle ==
    file = <<>> /\ fileExists = TRUE /\ parseResult = NotRun /\ asyncResult = NotRun
TriageIdle == prompt = "" /\ cfg = NotRun /\ triageResult = [main |-> NotRun, cfgts |-> NotRun]
ScoreIdle == sessions = <<>> /\ scorecard = NotRun /\ categories = <<>>
BaselineIdle == baselineFile = NotRun /\ inv = <<>> /\ history = <<>>
TrendIdle == dailyScores = <<>> /\ trendReport = NotRun
TimelineIdle ==
    /\ clock = 0
    /\ sessionLog = <<>>
    /\ gitLog = <<>>
    /\ table = <<>>
    /\ indexed_projects = <<>>
    /\ lastRun = NotRun
HookIdle ==
    /\ counterFile = NotRun
    /\ hook = <<>>
    /\ hookStarted = 0
    /\ hookExited = 0
    /\ emitted = <<>>
OtherIdle == TrendIdle /\ TimelineIdle /\ HookIdle

\* parseSession: statSync raises ENOENT when there is no file at the path;
\* otherwise the file is read and parseLinesSync runs over its lines
parseSession(exists, lines) ==
    IF ~exists THEN [status |-> "threw", events |-> <<>>, stderr |-> <<>>]
    ELSE parseLinesSync(lines)

ParseSession ==
    /\ parseResult = NotRun
    /\ parseResult' = parseSession(fileExists, file)
    /\ UNCHANGED <<otherVars, triageVars, scoreVars, baselineVars, file, fileExists, asyncResult>>

InitParse ==
    /\ fileExists \in BOOLEAN
    /\ file \in IF fileExists THEN SeqsUpTo(LineSamples, MaxLines) ELSE { <<>> }
    /\ parseResult = NotRun
    /\ asyncResult = NotRun
    /\ TriageIdle /\ ScoreIdle /\ BaselineIdle /\ OtherIdle

NextParse == ParseSession

SpecParse == InitParse /\ [][NextParse]_vars

\* ---- the same file parsed by both parsers ----
ParseSessionAsync ==
    /\ asyncResult = NotRun
    /\ asyncResult' = parseSessionAsync(fileExists, file)
    /\ UNCHANGED <<otherVars, triageVars, scoreVars, baselineVars, file, fileExists, parseResult>>

NextStream == ParseSession \/ ParseSessionAsync

SpecStream == InitParse /\ [][NextStream]_vars

\* ------------------------------------------------------------------------
\* More string helpers used by the triage classifier
\* ------------------------------------------------------------------------
RECURSIVE trimStart(_)
trimStart(s) ==
    IF s # "" /\ CharAt(s, 1) \in WhiteSpace THEN trimStart(SubSeq(s, 2, Len(s))) ELSE s

RECURSIVE trimEnd(_)
trimEnd(s) ==
    IF s # "" /\ CharAt(s, Len(s)) \in WhiteSpace THEN trimEnd(SubSeq(s, 1, Len(s) - 1)) ELSE s

trim(s) == trimEnd(trimStart(s))

startsWith(s, t) == Len(t) <= Len(s) /\ SubSeq(s, 1, Len(t)) = t

\* smallest member of a non-empty set of integers
MinOf(S) == CHOOSE x \in S : \A y \in S : x <= y
MaxOf(S) == CHOOSE x \in S : \A y \in S : x >= y

\* s.split(sep) for a literal, non-empty separator
RECURSIVE SplitOn(_, _)
SplitOn(s, sep) ==
    LET hits == { k \in 1..(Len(s) - Len(sep) + 1) : SubSeq(s, k, k + Len(sep) - 1) = sep }
    IN  IF hits = {} THEN <<s>>
        ELSE LET k == MinOf(hits)
             IN  <<SubSeq(s, 1, k - 1)>> \o SplitOn(SubSeq(s, k + Len(sep), Len(s)), sep)

\* s.split(/\s+/)
RECURSIVE SplitWs(_)
SplitWs(s) ==
    LET hits == { k \in 1..Len(s) : CharAt(s, k) \in WhiteSpace }
    IN  IF hits = {} THEN <<s>>
        ELSE LET k == MinOf(hits)
             IN  <<SubSeq(s, 1, k - 1)>> \o SplitWs(trimStart(SubSeq(s, k, Len(s))))

\* every character of s[a..b] lies in class C (true of an empty range)
AllIn(s, a, b, C) == \A k \in a..b : CharAt(s, k) \in C

DigitChars == CharsOf(Digits)
PathChars == WordChars \cup {".", "-", "/", "\\"}

\* number of consecutive characters of class C in s starting at position k
RECURSIVE RunLen(_, _, _)
RunLen(s, k, C) ==
    IF k > Len(s) \/ CharAt(s, k) \notin C THEN 0 ELSE 1 + RunLen(s, k + 1, C)

\* /\.\w+/.test(w)
HasDotWord(w) == \E k \in 1..(Len(w) - 1) : CharAt(w, k) = "." /\ CharAt(w, k + 1) \in WordChars

HasUpper(w) == \E k \in 1..Len(w) : CharAt(w, k) \in CharsOf(UpperAlpha)

\* s.match(/[\w\-./\\]+\.\w{1,maxExt}/g): leftmost, greedy, non-overlapping matches
\* scanning from position k
RECURSIVE FileMatchesFrom(_, _, _)
FileMatchesFrom(s, k, maxExt) ==
    IF k > Len(s) THEN <<>>
    ELSE LET run == RunLen(s, k, PathChars)
             dots == { d \in (k + 1)..(k + run - 1) :
                         CharAt(s, d) = "." /\ d < Len(s) /\ CharAt(s, d + 1) \in WordChars }
         IN  IF dots = {} THEN FileMatchesFrom(s, k + run + 1, maxExt)
             ELSE LET d == MaxOf(dots)
                      e == d + Min(maxExt, RunLen(s, d + 1, WordChars))
                  IN  <<SubSeq(s, k, e)>> \o FileMatchesFrom(s, e + 1, maxExt)

FirstSegments(files) == { SplitOn(files[k], "/")[1] : k \in 1..Len(files) }

\* /\n\s*[1-9][.)]\s/ and /\n\s*[-*]\s/
HasListLine(s, bullets, closers) ==
    \E n \in 1..Len(s) :
        /\ CharAt(s, n) = "\n"
        /\ \E k \in (n + 1)..Len(s) :
              /\ AllIn(s, n + 1, k - 1, WhiteSpace)
              /\ CharAt(s, k) \in bullets
              /\ IF closers = {} THEN k + 1 <= Len(s) /\ CharAt(s, k + 1) \in WhiteSpace
                 ELSE /\ k + 2 <= Len(s)
                      /\ CharAt(s, k + 1) \in closers
                      /\ CharAt(s, k + 2) \in WhiteSpace

\* ------------------------------------------------------------------------
\* Prompt triage classifier (unnamed/part_010)
\* ------------------------------------------------------------------------
TRIVIAL_COMMANDS ==
    <<"commit", "format", "lint", "run tests", "push", "pull",
      "status", "build", "test", "deploy", "start", "stop", "restart">>

VAGUE_PRONOUNS == <<"it", "them", "the thing", "those", "these">>
VAGUE_VERBS == <<"fix", "update", "change">>
CROSS_SERVICE_TERMS == <<"schema", "contract", "interface", "event">>

lower(s) == trim(toLowerCase(s))

isTrivialCommand(p0) ==
    LET p == lower(p0)
    IN  \E k \in 1..Len(TRIVIAL_COMMANDS) :
            p = TRIVIAL_COMMANDS[k] \/ startsWith(p, TRIVIAL_COMMANDS[k] \o " ")

\* FILE_PATH_RE = /(?:^|[\s,:(])([.\w\-/\\]+\.\w{1,6})\b/
hasFileRefs(s) ==
    \E d \in 2..Len(s) :
        /\ CharAt(s, d) = "."
        /\ \E n \in 1..6 :
              /\ d + n <= Len(s)
              /\ AllIn(s, d + 1, d + n, WordChars)
              /\ WordBoundary(s, d + n + 1)
        /\ \E a \in 1..(d - 1) :
              /\ a = 1 \/ CharAt(s, a - 1) \in (WhiteSpace \cup {",", ":", "("})
              /\ AllIn(s, a, d - 1, PathChars)

\* LINE_NUMBER_RE = /\bline\s+\d+|:\d+\b/
hasLineNumbers(s) ==
    \/ \E k \in 1..(Len(s) - 5) :
          /\ SubSeq(s, k, k + 3) = "line"
          /\ WordBoundary(s, k)
          /\ \E n \in 1..(Len(s) - k - 4) :
                /\ AllIn(s, k + 4, k + 3 + n, WhiteSpace)
                /\ CharAt(s, k + 4 + n) \in DigitChars
    \/ \E k \in 1..(Len(s) - 1) :
          /\ CharAt(s, k) = ":"
          /\ \E n \in 1..(Len(s) - k) :
                /\ AllIn(s, k + 1, k + n, DigitChars)
                /\ WordBoundary(s, k + n + 1)

hasVaguePronouns(s) == \E k \in 1..Len(VAGUE_PRONOUNS) : MatchWordI(s, VAGUE_PRONOUNS[k])

\* first index of w in words, 0 when absent (Array.prototype.indexOf, 1-based)
IndexOf(words, w) ==
    IF \E k \in 1..Len(words) : words[k] = w
    THEN MinOf({ k \in 1..Len(words) : words[k] = w })
    ELSE 0

\* a vague verb with no concrete word among the three words after it
VagueVerbIn(words, verbs) ==
    \E v \in 1..Len(verbs) :
        LET idx == IndexOf(words, verbs[v])
        IN  /\ idx # 0
            /\ ~ \E k \in (idx + 1)..Min(idx + 3, Len(words)) :
                    HasDotWord(words[k]) \/ Len(words[k]) > 6 \/ HasUpper(words[k])

hasVagueVerbs_shortTarget(s) ==
    \E words \in { SplitWs(lower(s)) } :
        \E v \in 1..Len(VAGUE_VERBS) :
            LET idx == IndexOf(words, VAGUE_VERBS[v])
            IN  /\ idx # 0
                /\ ~ \E k \in (idx + 1)..Min(idx + 3, Len(words)) :
                        HasDotWord(words[k]) \/ Len(words[k]) > 2 \/ HasUpper(words[k])

hasVagueVerbs(s) == VagueVerbIn(SplitWs(lower(s)), VAGUE_VERBS)

detectCrossService(s, c) ==
    LET p == lower(s)
        hit(label, q) ==
            SelectSeq([k \in 1..Len(q) |-> [label |-> label, kw |-> q[k]]],
                      LAMBDA h : Includes(p, lower(h.kw)))
        fmt(hs) == [k \in 1..Len(hs) |-> hs[k].label \o ": " \o hs[k].kw]
    IN  fmt(hit("keyword", c.crossServiceKeywords))
        \o fmt(hit("project", c.relatedAliases))
        \o fmt(hit("term", CROSS_SERVICE_TERMS))

\* MULTI_STEP_SEQUENTIAL = /\b(then|after that|first\b.*\bthen|finally)\b/i
MatchesSequential(s) ==
    \/ MatchWordI(s, "then")
    \/ MatchWordI(s, "after that")
    \/ MatchWordI(s, "finally")
    \/ \E ln \in Range(SplitOn(toLowerCase(s), "\n")) :
          \E a, b \in 1..Len(ln) :
              a + 5 <= b /\ WordAt(ln, a, "first") /\ WordAt(ln, b, "then")

isMultiStep(s) ==
    LET p == lower(s)
        parts == SplitOn(p, " and ")
        files == FileMatchesFrom(s, 1, 6)
    IN  \/ /\ Includes(p, " and ")
           /\ Len(parts) > 1
           /\ \A k \in 1..Len(parts) : Len(SplitWs(trim(parts[k]))) >= 2
        \/ MatchesSequential(s)
        \/ HasListLine(s, CharsOf("123456789"), {".", ")"})
        \/ HasListLine(s, {"-", "*"}, {})
        \/ (Len(files) > 1 /\ Cardinality(FirstSegments(files)) > 1)

Result(level, confidence, reasons, tools, hits) ==
    [level |-> level, confidence |-> confidence, reasons |-> reasons,
     recommended_tools |-> tools, cross_service_hits |-> hits]

\* q[a..b].join(sep), halving the range to keep the recursion shallow
RECURSIVE JoinRange(_, _, _, _)
JoinRange(q, a, b, sep) ==
    IF a > b THEN ""
    ELSE IF a = b THEN q[a]
    ELSE LET m == (a + b) \div 2
         IN  JoinRange(q, a, m, sep) \o sep \o JoinRange(q, m + 1, b, sep)

JoinWith(q, sep) == JoinRange(q, 1, Len(q), sep)

\* keywords of the list that the prompt contains, compared through lower()
KeywordHits(s, kws) ==
    LET p == lower(s)
    IN  SelectSeq(kws, LAMBDA kw : Includes(p, lower(kw)))

\* 5.-7. trivial command, ambiguity signals, clear
triageFromTrivial(s, c) ==
    LET len == Len(trim(s))
        ambiguousReasons ==
            (IF len < 50 /\ ~hasFileRefs(s)
             THEN <<"short prompt without file references">> ELSE <<>>)
            \o (IF hasVaguePronouns(s) THEN <<"contains vague pronouns">> ELSE <<>>)
            \o (IF hasVagueVerbs(s)
                THEN <<"contains vague verbs without specific targets">> ELSE <<>>)
        found ==
            (IF hasFileRefs(s) THEN <<"references specific file paths">> ELSE <<>>)
            \o (IF hasLineNumbers(s) THEN <<"references specific line numbers">> ELSE <<>>)
            \o (IF len > 50 THEN <<"detailed prompt with concrete nouns">> ELSE <<>>)
        reasons == IF found = <<>> THEN <<"well-formed prompt with clear intent">> ELSE found
        clearTools ==
            IF hasFileRefs(s) \/ c.strictness = "strict" THEN <<"verify-files-exist">> ELSE <<>>
    IN  IF len < 20 /\ isTrivialCommand(s)
        THEN Result("trivial", 90, <<"short common command">>, <<>>, <<>>)
        ELSE IF ambiguousReasons # <<>>
        THEN Result("ambiguous", 70, ambiguousReasons, <<"clarify-intent", "scope-work">>, <<>>)
        ELSE Result("clear", IF c.strictness = "strict" THEN 80 ELSE 85,
                    reasons, clearTools, <<>>)

triageFromAlwaysCheck_afterTrivial(s, c) ==
    LET hits == KeywordHits(s, c.alwaysCheck)
        rest == triageFromTrivial(s, c)
    IN  IF hits # <<>> /\ rest.level = "trivial"
        THEN Result("ambiguous", 80,
                    <<"matches always_check keyword: \"" \o hits[1] \o "\"">>,
                    <<"clarify-intent", "scope-work">>, <<>>)
        ELSE rest

\* 4. always_check keywords -> at least ambiguous
triageFromAlwaysCheck(s, c) ==
    LET hits == KeywordHits(s, c.alwaysCheck)
    IN  IF hits # <<>>
        THEN Result("ambiguous", 80,
                    <<"matches always_check keyword: \"" \o hits[1] \o "\"">>,
                    <<"clarify-intent", "scope-work">>, <<>>)
        ELSE triageFromTrivial(s, c)

\* 3. cross-service
triageFromCrossService(s, c) ==
    LET csHits == detectCrossService(s, c)
    IN  IF csHits # <<>>
        THEN Result("cross-service", 80,
                    <<"cross-service indicators: " \o JoinWith(csHits, ", ")>>,
                    <<"clarify-intent", "scope-work", "search-related-projects">>, csHits)
        ELSE triageFromAlwaysCheck(s, c)

\* 2. multi-step
triageFromMultiStep(s, c) ==
    IF isMultiStep(s)
    THEN Result("multi-step", 85, <<"contains multi-step indicators">>,
                <<"clarify-intent", "scope-work", "sequence-tasks">>, <<>>)
    ELSE triageFromCrossService(s, c)

triagePrompt_skipAfterMultiStep(s, c) ==
    LET hits == KeywordHits(s, c.skip)
    IN  IF isMultiStep(s) THEN triageFromMultiStep(s, c)
        ELSE IF hits # <<>>
        THEN Result("trivial", 95, <<"matches skip keyword: \"" \o hits[1] \o "\"">>,
                    <<>>, <<>>)
        ELSE triageFromMultiStep(s, c)

\* 1. skip keywords -> trivial immediately
triagePrompt(s, c) ==
    LET hits == KeywordHits(s, c.skip)
    IN  IF hits # <<>>
        THEN Result("trivial", 95, <<"matches skip keyword: \"" \o hits[1] \o "\"">>,
                    <<>>, <<>>)
        ELSE triageFromMultiStep(s, c)

\* ------------------------------------------------------------------------
\* Prompt triage classifier, second implementation (src/lib/config.ts)
\* ------------------------------------------------------------------------
isTrivialCommand_cfgts(p0) ==
    LET p == trim(toLowerCase(p0))
    IN  \E k \in 1..Len(TRIVIAL_COMMANDS) :
            p = TRIVIAL_COMMANDS[k] \/ startsWith(p, TRIVIAL_COMMANDS[k] \o " ")

\* /^[\w\-./]+\.\w+$/ or /^[\w\-./\\]+[\/\\][\w\-./\\]+\.\w+$/ on the trimmed prompt
isFilePath(p0) ==
    LET t == trim(p0)
        n == Len(t)
    IN  \/ \E d \in 2..(n - 1) :
              /\ CharAt(t, d) = "."
              /\ AllIn(t, d + 1, n, WordChars)
              /\ AllIn(t, 1, d - 1, PathChars \ {"\\"})
        \/ \E d \in 4..(n - 1) :
              /\ CharAt(t, d) = "."
              /\ AllIn(t, d + 1, n, WordChars)
              /\ AllIn(t, 1, d - 1, PathChars)
              /\ \E m \in 2..(d - 2) : CharAt(t, m) \in {"/", "\\"}

\* /[\w\-./\\]+\.\w{1,4}(?:\s|$|,|:)/
hasFileReferences(s) ==
    \E d \in 2..Len(s) :
        /\ CharAt(s, d - 1) \in PathChars
        /\ CharAt(s, d) = "."
        /\ \E n \in 1..4 :
              /\ d + n <= Len(s)
              /\ AllIn(s, d + 1, d + n, WordChars)
              /\ \/ d + n = Len(s)
                 \/ CharAt(s, d + n + 1) \in (WhiteSpace \cup {",", ":"})

\* /line\s+\d+|:\d+|@\d+/
hasLineNumbers_cfgts(s) ==
    \/ \E k \in 1..(Len(s) - 5) :
          /\ SubSeq(s, k, k + 3) = "line"
          /\ \E n \in 1..(Len(s) - k - 4) :
                /\ AllIn(s, k + 4, k + 3 + n, WhiteSpace)
                /\ CharAt(s, k + 4 + n) \in DigitChars
    \/ \E k \in 1..(Len(s) - 1) :
          CharAt(s, k) \in {":", "@"} /\ CharAt(s, k + 1) \in DigitChars

vaguePronouns_cfgts == <<"it", "them", "the thing", "that", "those", "this", "these">>

hasVaguePronouns_cfgts(s) ==
    \E k \in 1..Len(vaguePronouns_cfgts) : MatchWordI(s, vaguePronouns_cfgts[k])

vagueVerbs_cfgts == <<"fix", "update", "change", "refactor", "improve", "optimize">>

hasVagueVerbs_cfgts(s) == VagueVerbIn(SplitWs(toLowerCase(s)), vagueVerbs_cfgts)

crossServiceTerms_cfgts ==
    <<"schema", "contract", "interface", "event", "api", "endpoint", "service">>

hasCrossServiceIndicators(s, c) ==
    LET p == toLowerCase(s)
        hit(label, q) ==
            SelectSeq([k \in 1..Len(q) |-> [label |-> label, kw |-> q[k]]],
                      LAMBDA h : Includes(p, toLowerCase(h.kw)))
        fmt(hs) == [k \in 1..Len(hs) |-> hs[k].label \o ": " \o hs[k].kw]
    IN  fmt(hit("keyword", c.crossServiceKeywords))
        \o fmt(hit("project", c.relatedAliases))
        \o fmt(hit("term", crossServiceTerms_cfgts))

sequentialWords == <<"then", "after that", "first", "second", "next", "finally">>

isMultiStep_cfgts(s) ==
    LET fileMatches == FileMatchesFrom(s, 1, Len(s))
        lead == Len(s) - Len(trimStart(s))
    IN  \/ /\ \E k \in 1..Len(s) : WordAt(s, k, "and")
           /\ Len(SplitOn(s, " and ")) > 1
        \/ /\ lead + 2 <= Len(s)
           /\ CharAt(s, lead + 1) \in CharsOf("123456789")
           /\ CharAt(s, lead + 2) = "."
        \/ (lead + 1 <= Len(s) /\ CharAt(s, lead + 1) \in {"-", "*"})
        \/ Includes(s, "\n1.")
        \/ Includes(s, "\n-")
        \/ LET p == toLowerCase(s)
           IN  \E k \in 1..Len(sequentialWords) : Includes(p, sequentialWords[k])
        \/ (Len(fileMatches) > 1 /\ Cardinality(FirstSegments(fileMatches)) > 1)

\* Array.prototype.find followed by a truthiness test: the first keyword the prompt
\* contains, and it counts only if it is a non-empty string
FoundKeyword(s, kws) ==
    LET p == toLowerCase(s)
        hits == SelectSeq(kws, LAMBDA kw : Includes(p, toLowerCase(kw)))
    IN  IF hits # <<>> /\ hits[1] # "" THEN <<hits[1]>> ELSE <<>>

\* trivial checks, ambiguous checks, clear
triageFromTrivial_cfgts(s, c) ==
    LET promptLength == Len(trim(s))
        shortNoRef == promptLength < 50 /\ ~hasFileReferences(s)
        ambiguous ==
            (IF shortNoRef THEN <<"short prompt without file references">> ELSE <<>>)
            \o (IF hasVaguePronouns_cfgts(s) THEN <<"contains vague pronouns">> ELSE <<>>)
            \o (IF hasVagueVerbs_cfgts(s)
                THEN <<"contains vague verbs without specific targets">> ELSE <<>>)
        ambConfidence ==
            LET c1 == IF shortNoRef THEN 70 ELSE 80
                c2 == IF hasVaguePronouns_cfgts(s) THEN Min(c1, 80) ELSE c1
            IN  IF hasVagueVerbs_cfgts(s) THEN Min(c2, 75) ELSE c2
        found ==
            (IF hasFileReferences(s) THEN <<"references specific file paths">> ELSE <<>>)
            \o (IF hasLineNumbers_cfgts(s) THEN <<"references specific line numbers">> ELSE <<>>)
            \o (IF promptLength > 50 THEN <<"detailed prompt with concrete nouns">> ELSE <<>>)
        tools0 == IF hasFileReferences(s) THEN <<"verify-files-exist">> ELSE <<>>
        strictAdds == c.strictness = "strict" /\ tools0 = <<>>
        relaxedAdds == ~strictAdds /\ c.strictness = "relaxed" /\ found = <<>>
        reasons1 ==
            found \o (IF strictAdds THEN <<"strict mode: adding verification checks">>
                      ELSE IF relaxedAdds THEN <<"relaxed mode: assuming clear intent">>
                      ELSE <<>>)
        reasons == IF reasons1 = <<>> THEN <<"well-formed prompt with clear intent">>
                   ELSE reasons1
    IN  IF promptLength < 20 /\ isTrivialCommand_cfgts(s)
        THEN Result("trivial", 90, <<"short common command">>, <<>>, <<>>)
        ELSE IF isFilePath(s)
        THEN Result("trivial", 85, <<"appears to be a file path">>, <<>>, <<>>)
        ELSE IF ambiguous # <<>>
        THEN Result("ambiguous", ambConfidence, ambiguous,
                    <<"clarify-intent", "scope-work">>, <<>>)
        ELSE Result("clear", 80, reasons,
                    IF strictAdds THEN <<"verify-files-exist">> ELSE tools0, <<>>)

\* multi-step check, then cross-service check
triageFromMultiStep_cfgts(s, c) ==
    LET crossServiceHits == hasCrossServiceIndicators(s, c)
    IN  IF isMultiStep_cfgts(s)
        THEN Result("multi-step", 85, <<"contains multi-step indicators">>,
                    <<"clarify-intent", "scope-work", "sequence-tasks">>, <<>>)
        ELSE IF crossServiceHits # <<>>
        THEN Result("cross-service", 80,
                    <<"cross-service indicators: " \o JoinWith(crossServiceHits, ", ")>>,
                    <<"clarify-intent", "scope-work", "search-related-projects">>,
                    crossServiceHits)
        ELSE triageFromTrivial_cfgts(s, c)

\* always_check keywords (force ambiguous+): cross-service, then multi-step, then ambiguous
triageFromAlwaysCheck_cfgts(s, c) ==
    LET alwaysCheckMatch == FoundKeyword(s, c.alwaysCheck)
        crossServiceHits == hasCrossServiceIndicators(s, c)
        reason == <<"matches always_check keyword: " \o alwaysCheckMatch[1]>>
    IN  IF alwaysCheckMatch = <<>> THEN triageFromMultiStep_cfgts(s, c)
        ELSE IF crossServiceHits # <<>>
        THEN Result("cross-service", 80,
                    reason \o <<"cross-service indicators: " \o JoinWith(crossServiceHits, ", ")>>,
                    <<"clarify-intent", "scope-work", "search-related-projects">>,
                    crossServiceHits)
        ELSE IF isMultiStep_cfgts(s)
        THEN Result("multi-step", 80, reason \o <<"contains multi-step indicators">>,
                    <<"clarify-intent", "scope-work", "sequence-tasks">>, <<>>)
        ELSE Result("ambiguous", 80, reason, <<"clarify-intent", "scope-work">>, <<>>)

\* skip keywords first (highest priority)
triagePrompt_cfgts(s, c) ==
    LET skipMatch == FoundKeyword(s, c.skip)
    IN  IF skipMatch # <<>>
        THEN Result("trivial", 90, <<"matches skip keyword: " \o skipMatch[1]>>, <<>>, <<>>)
        ELSE triageFromAlwaysCheck_cfgts(s, c)

\* ---- the prompts and configurations triage is run on ----
Phrases ==
    { "commit", "fix the bug", "and", "then", "update the schema",
      "run the Migration", "src/auth/jwt.ts", "it" }

\* the example classifications of the header comments of both implementations
DocumentedExamples ==
    { <<"commit", "trivial">>,
      <<"fix the null check in src/auth/jwt.ts line 42", "clear">>,
      <<"fix the auth bug", "ambiguous">>,
      <<"refactor auth to OAuth2 and update all API consumers", "multi-step">> }

\* prompts that carry one ambiguity signal, or one kind of concrete target
SignalPrompts ==
    { "rename this helper in src/auth/jwt.ts",
      "delete that branch of src/auth/jwt.ts",
      "fix Config loader", "fix auth.ts now", "fix the tokenizer" }

Prompts ==
    { JoinWith(q, " ") : q \in SeqsUpTo(Phrases, MaxPhrases) \ { <<>> } }
        \cup { e[1] : e \in DocumentedExamples }
        \cup SignalPrompts

Config(skip, alwaysCheck, crossServiceKeywords, relatedAliases, strictness) ==
    [skip |-> skip, alwaysCheck |-> alwaysCheck,
     crossServiceKeywords |-> crossServiceKeywords,
     relatedAliases |-> relatedAliases, strictness |-> strictness]

ConfigSamples ==
    { Config(<<>>, <<>>, <<>>, <<>>, "standard"),
      Config(<<"commit">>, <<"migration">>, <<>>, <<>>, "standard"),
      Config(<<"lint", "Commit">>, <<"schema">>, <<"auth">>, <<"rewards-api">>, "strict"),
      Config(<<>>, <<"permissions", "migration">>, <<>>, <<>>, "relaxed") }

\* triagePrompt of unnamed/part_010 applied to the prompt
TriagePrompt ==
    /\ cfg # NotRun
    /\ triageResult.main = NotRun
    /\ triageResult' = [triageResult EXCEPT !.main = triagePrompt(prompt, cfg)]
    /\ UNCHANGED <<otherVars, parserVars, scoreVars, baselineVars, prompt, cfg>>

\* triagePrompt of src/lib/config.ts applied to the prompt
TriagePromptCfgTs ==
    /\ cfg # NotRun
    /\ triageResult.cfgts = NotRun
    /\ triageResult' = [triageResult EXCEPT !.cfgts = triagePrompt_cfgts(prompt, cfg)]
    /\ UNCHANGED <<otherVars, parserVars, scoreVars, baselineVars, prompt, cfg>>

InitTriage ==
    /\ prompt \in Prompts
    /\ cfg \in ConfigSamples
    /\ triageResult = [main |-> NotRun, cfgts |-> NotRun]
    /\ ParserIdle /\ ScoreIdle /\ BaselineIdle /\ OtherIdle

NextTriage == TriagePrompt \/ TriagePromptCfgTs

SpecTriage == InitTriage /\ [][NextTriage]_vars

\* ------------------------------------------------------------------------
\* Scorecard engine (unnamed/part_011)
\* Numbers that the code holds as floats are kept exact here: a quotient is
\* a numerator and a positive denominator, and session durations are whole
\* minutes.  Evidence strings and examples of a CategoryScore are left out.
\* A value that is used many times is bound once, by a comprehension over a
\* singleton set: CHOOSE r \in { F(x) : x \in {e} } : TRUE is F(e).
\* ------------------------------------------------------------------------

\* Math.round(num / den) for den > 0: floor(x + 1/2)
MathRound(num, den) == (2 * num + den) \div (2 * den)

letterGrade(score) ==
    IF score >= 95 THEN "A+"
    ELSE IF score >= 90 THEN "A"
    ELSE IF score >= 85 THEN "A-"
    ELSE IF score >= 80 THEN "B+"
    ELSE IF score >= 75 THEN "B"
    ELSE IF score >= 70 THEN "B-"
    ELSE IF score >= 65 THEN "C+"
    ELSE IF score >= 60 THEN "C"
    ELSE IF score >= 55 THEN "C-"
    ELSE IF score >= 50 THEN "D"
    ELSE "F"

clamp_noFloor(num, den) == Min(100, MathRound(num, den))

\* clamp(v) for v = num / den
clamp(num, den) == Max(0, Min(100, MathRound(num, den)))

PathClass == WordChars \cup {".", "/", "-"}

\* /(?:\/[\w./-]+\.\w{1,6}|\b\w+\.\w{2,6}\b)/.test(s)
PATH_RE(s) ==
    \E d \in 2..(Len(s) - 1) :
        /\ CharAt(s, d) = "."
        /\ CharAt(s, d + 1) \in WordChars
        /\ \/ \E a \in 1..(d - 2) : CharAt(s, a) = "/" /\ AllIn(s, a + 1, d - 1, PathClass)
           \/ /\ CharAt(s, d - 1) \in WordChars
              /\ \E n \in 2..6 :
                    /\ d + n <= Len(s)
                    /\ AllIn(s, d + 1, d + n, WordChars)
                    /\ WordBoundary(s, d + n + 1)

FileExts ==
    {"ts", "tsx", "js", "jsx", "py", "rs", "go", "rb", "java", "c", "cpp", "h", "css",
     "scss", "html", "json", "yaml", "yml", "toml", "md", "sql", "sh"}

\* /\.\b(?:ts|tsx|...|sh)\b/.test(s)
FILE_EXT_RE(s) ==
    \E d \in 1..(Len(s) - 1) :
        /\ CharAt(s, d) = "."
        /\ \E ext \in FileExts :
              /\ d + Len(ext) <= Len(s)
              /\ SubSeq(s, d + 1, d + Len(ext)) = ext
              /\ WordBoundary(s, d + Len(ext) + 1)

hasFileRef(text) == \E s \in {text} : PATH_RE(s) \/ FILE_EXT_RE(s)

pct(num, den) == IF den = 0 THEN 100 ELSE MathRound(100 * num, den)

RECURSIVE SumTo(_, _)
SumTo(q, k) == IF k = 0 THEN 0 ELSE q[k] + SumTo(q, k - 1)

\* sum of a list of numbers
SumSeq(q) == CHOOSE r \in { SumTo(v, Len(v)) : v \in {q} } : TRUE

\* Array.prototype.indexOf on events, which are distinct objects (1-based here)
indexOf(events, e) == CHOOSE k \in 1..Len(events) : events[k].id = e.id

\* a TimelineEvent; timestamp in minutes, id standing for the object's identity
Ev(type, content, minute) ==
    [type |-> type, content |-> content, timestamp |-> minute, session_id |-> "s1", id |-> 0]

OfType(events, t) == SelectSeq(events, LAMBDA e : e.type = t)

classifyEvents(events) ==
    [id               |-> IF events = <<>> THEN "unknown" ELSE events[1].session_id,
     events           |-> events,
     userMessages     |-> OfType(events, "user_prompt"),
     assistantMessages |-> OfType(events, "assistant_response"),
     toolCalls        |-> OfType(events, "tool_call"),
     corrections      |-> OfType(events, "correction"),
     compactions      |-> OfType(events, "compaction"),
     commits          |-> OfType(events, "git_commit"),
     subAgentSpawns   |-> OfType(events, "sub_agent_spawn"),
     durationMinutes  |-> IF Len(events) >= 2
                          THEN events[Len(events)].timestamp - events[1].timestamp
                          ELSE 0]

CategoryScore(name, score) == [name |-> name, score |-> score, grade |-> letterGrade(score)]

hasPlanning(s) ==
    LET first3 == SliceTo(s.userMessages, 3)
    IN  \E k \in 1..Len(first3) : Len(first3[k].content) > 100 /\ hasFileRef(first3[k].content)

scorePlans(ss) ==
    IF Len(ss) = 0 THEN [name |-> "Plans", score |-> 75, grade |-> "B"]
    ELSE LET planned == Cardinality({ k \in 1..Len(ss) : hasPlanning(ss[k]) })
         IN  CategoryScore("Plans", clamp(pct(planned, Len(ss)), 1))

scoreClarification(ss) ==
    LET total == SumSeq([k \in 1..Len(ss) |-> Len(ss[k].userMessages)])
        specific == SumSeq([k \in 1..Len(ss) |->
                        Cardinality({ j \in 1..Len(ss[k].userMessages) :
                                        hasFileRef(ss[k].userMessages[j].content) })])
    IN  CategoryScore("Clarification", clamp(pct(specific, total), 1))

scoreDelegation(ss) ==
    LET total == SumSeq([k \in 1..Len(ss) |-> Len(ss[k].subAgentSpawns)])
        quality == SumSeq([k \in 1..Len(ss) |->
                        Cardinality({ j \in 1..Len(ss[k].subAgentSpawns) :
                                        Len(ss[k].subAgentSpawns[j].content) > 200 })])
    IN  IF total = 0 THEN [name |-> "Delegation", score |-> 75, grade |-> "B"]
        ELSE CategoryScore("Delegation", clamp(pct(quality, total), 1))

\* the event at position i is a user prompt whose nearest earlier
\* assistant_response / user_prompt event is an assistant_response
IsFollowUp(events, i) ==
    /\ events[i].type = "user_prompt"
    /\ LET turns == { j \in 1..(i - 1) : events[j].type \in {"assistant_response", "user_prompt"} }
       IN  turns # {} /\ events[MaxOf(turns)].type = "assistant_response"

scoreFollowUpSpecificity(ss) ==
    LET followUps == SumSeq([k \in 1..Len(ss) |->
                        Cardinality({ i \in 1..Len(ss[k].events) : IsFollowUp(ss[k].events, i) })])
        specific == SumSeq([k \in 1..Len(ss) |->
                        Cardinality({ i \in 1..Len(ss[k].events) :
                            /\ IsFollowUp(ss[k].events, i)
                            /\ \/ hasFileRef(ss[k].events[i].content)
                               \/ Len(ss[k].events[i].content) >= 50 })])
    IN  CategoryScore("Follow-up Specificity", clamp(pct(specific, followUps), 1))

Quotes == {"\"", "'"}

RECURSIVE RunLenOutside(_, _, _)
RunLenOutside(s, k, C) ==
    IF k > Len(s) \/ CharAt(s, k) \in C THEN 0 ELSE 1 + RunLenOutside(s, k + 1, C)

\* where ["']?\s*[:=]\s*["'] ends when matched from position q2, the
\* position after the optional quote (the position of the first captured
\* character), or 0 when it does not match with a non-empty capture
ValueAfterSeparator(s, q2) ==
    IF q2 <= Len(s) /\ CharAt(s, q2) \in {":", "="}
    THEN \E q3 \in {q2 + 1 + RunLen(s, q2 + 1, WhiteSpace)} :
            /\ q3 <= Len(s) /\ CharAt(s, q3) \in Quotes
            /\ RunLenOutside(s, q3 + 1, Quotes) >= 1
    ELSE FALSE

\* the same from position q, before the optional quote
QuotedValueAt(s, q) ==
    CHOOSE r \in
      { IF ValueAfterSeparator(s, q2) THEN q2 + 2 + RunLen(s, q2 + 1, WhiteSpace) ELSE 0 :
          q2 \in { q1 + RunLen(s, q1, WhiteSpace) :
                     q1 \in {IF q <= Len(s) /\ CharAt(s, q) \in Quotes THEN q + 1 ELSE q} } } : TRUE

\* where /(?:file_path|path)["']?\s*[:=]\s*["']([^"']+)/ matches in s
FilePathStarts(s) ==
    { k \in 1..Len(s) :
        \/ /\ k + 8 <= Len(s) /\ SubSeq(s, k, k + 8) = "file_path"
           /\ QuotedValueAt(s, k + 9) # 0
        \/ /\ k + 3 <= Len(s) /\ SubSeq(s, k, k + 3) = "path"
           /\ QuotedValueAt(s, k + 4) # 0 }

\* the first captured character of the leftmost of these matches
FilePathValue(s, starts) ==
    CHOOSE r \in
      { IF CharAt(s, m) = "f" THEN QuotedValueAt(s, m + 9) ELSE QuotedValueAt(s, m + 4) :
          m \in {MinOf(starts)} } : TRUE

\* tc.content.match(/(?:file_path|path)["']?\s*[:=]\s*["']([^"']+)/): the set
\* holding the captured group of the leftmost match, empty without a match
FilePathOf(content) ==
    CHOOSE r \in
      { IF starts = {} THEN {}
        ELSE { SubSeq(s, v, v + RunLenOutside(s, v, Quotes) - 1) :
                 v \in {FilePathValue(s, starts)} } :
          s \in {content}, starts \in {FilePathStarts(content)} } : TRUE

\* files.size || 1 for the Set of file paths a session's tool calls mention
FilesTouched(s) ==
    LET files == UNION { FilePathOf(s.toolCalls[k].content) : k \in 1..Len(s.toolCalls) }
    IN  IF files = {} THEN 1 ELSE Cardinality(files)

\* the score for the ratio totalCalls / totalFiles
ratioScore(totalCalls, totalFiles) ==
    \* with no session the ratio 0/0 is NaN and every comparison fails
    IF totalFiles = 0 THEN 40
    ELSE IF totalCalls <= 5 * totalFiles THEN 100
    ELSE IF totalCalls <= 10 * totalFiles THEN 90
    ELSE IF totalCalls <= 20 * totalFiles THEN 75
    ELSE IF totalCalls <= 40 * totalFiles THEN 60
    ELSE 40

\* the deduction for sessions with more than 200 tool calls
deductBloated(score, bloated) ==
    IF bloated > 0 THEN clamp(score - bloated * 10, 1) ELSE score

scoreTokenEfficiency(ss) ==
    LET totalCalls == SumSeq([k \in 1..Len(ss) |-> Len(ss[k].toolCalls)])
        totalFiles == SumSeq([k \in 1..Len(ss) |-> FilesTouched(ss[k])])
        bloated == Cardinality({ k \in 1..Len(ss) : Len(ss[k].toolCalls) > 200 })
    IN  CategoryScore("Token Efficiency",
                      CHOOSE r \in { clamp(deductBloated(score, bloated), 1) :
                                       score \in { ratioScore(calls, files) :
                                                     calls \in {totalCalls},
                                                     files \in {totalFiles} } } : TRUE)

\* m.content.match(/(?:\/[\w./-]+)/) then split("/").slice(0, -1).join("/")
areaOf(content) ==
    CHOOSE r \in
      { IF starts = {} THEN ""
        ELSE CHOOSE area \in
               { SubSeq(match, 1, MaxOf({ j \in 1..Len(match) : CharAt(match, j) = "/" }) - 1) :
                   match \in { SubSeq(s, k, k + RunLen(s, k + 1, PathClass)) :
                                 k \in {MinOf(starts)} } } : TRUE :
          s \in {content},
          starts \in {{ k \in 1..(Len(content) - 1) :
                          CharAt(content, k) = "/" /\ CharAt(content, k + 1) \in PathClass }} } : TRUE

\* topic switches among the user messages from position k on
RECURSIVE Switches(_, _, _)
Switches(msgs, k, lastArea) ==
    IF k > Len(msgs) THEN 0
    ELSE CHOOSE r \in
           { (IF area # "" /\ last # "" /\ area # last THEN 1 ELSE 0)
               + Switches(msgs, k + 1, IF area # "" THEN area ELSE last) :
               area \in {areaOf(msgs[k].content)}, last \in {lastArea} } : TRUE

\* the score for the rate totalSwitches / totalPrompts
switchScore(totalPrompts, totalSwitches) ==
    IF totalPrompts = 0 \/ 20 * totalSwitches <= totalPrompts THEN 100
    ELSE IF 10 * totalSwitches <= totalPrompts THEN 90
    ELSE IF 5 * totalSwitches <= totalPrompts THEN 75
    ELSE IF 100 * totalSwitches <= 35 * totalPrompts THEN 60
    ELSE 45

scoreSequencing(ss) ==
    LET totalPrompts == SumSeq([k \in 1..Len(ss) |-> Len(ss[k].userMessages)])
        totalSwitches == SumSeq([k \in 1..Len(ss) |-> Switches(ss[k].userMessages, 1, "")])
    IN  CategoryScore("Sequencing",
                      CHOOSE r \in { clamp(switchScore(prompts, switches), 1) :
                                       prompts \in {totalPrompts},
                                       switches \in {totalSwitches} } : TRUE)

\* the compaction c was preceded by a commit within 10 events
CommitNearby(s, c) ==
    \E cIdx \in {indexOf(s.events, c)} :
        \E j \in Max(1, cIdx - 10)..(cIdx - 1) : s.events[j].type = "git_commit"

scoreCompactionManagement(ss) ==
    LET totalCompactions == SumSeq([k \in 1..Len(ss) |-> Len(ss[k].compactions)])
        covered == SumSeq([k \in 1..Len(ss) |->
                        Cardinality({ j \in 1..Len(ss[k].compactions) :
                                        CommitNearby(ss[k], ss[k].compactions[j]) })])
    IN  IF totalCompactions = 0
        THEN [name |-> "Compaction Management", score |-> 100, grade |-> "A+"]
        ELSE CategoryScore("Compaction Management", clamp(pct(covered, totalCompactions), 1))

\* twice what a session adds to `good`
LifecycleHalves(s) ==
    LET d == s.durationMinutes
        commits == Len(s.commits)
        per == IF commits > 0 THEN commits ELSE 1
    IN  IF d <= 0 THEN 2
        ELSE IF d > 180 /\ commits = 0 THEN 0
        ELSE IF d <= 30 * per THEN 2
        ELSE IF d <= 60 * per THEN 1
        ELSE 0

scoreSessionLifecycle(ss) ==
    IF Len(ss) = 0 THEN [name |-> "Session Lifecycle", score |-> 75, grade |-> "B"]
    ELSE LET good2 == SumSeq([k \in 1..Len(ss) |-> LifecycleHalves(ss[k])])
         IN  CategoryScore("Session Lifecycle", clamp(pct(MathRound(good2, 2), Len(ss)), 1))

\* a tool call or an assistant response among the two events after c
FastRecovery(s, c) ==
    \E cIdx \in {indexOf(s.events, c)} :
        \E j \in (cIdx + 1)..Min(cIdx + 2, Len(s.events)) :
            s.events[j].type \in {"tool_call", "assistant_response"}

\* the score for the given totals, at least one of them a correction
recoveryScore(totalMessages, totalCorrections, fastRecoveries) ==
    LET \* clamp(100 - correctionRate * 500)
        base == clamp(100 * totalMessages - 500 * totalCorrections, totalMessages)
    IN  \* clamp(score + pct(...) * 0.2)
        clamp(5 * base + pct(fastRecoveries, totalCorrections), 5)

scoreErrorRecovery(ss) ==
    LET totalMessages == SumSeq([k \in 1..Len(ss) |-> Len(ss[k].events)])
        totalCorrections == SumSeq([k \in 1..Len(ss) |-> Len(ss[k].corrections)])
        fastRecoveries == SumSeq([k \in 1..Len(ss) |->
                              Cardinality({ j \in 1..Len(ss[k].corrections) :
                                              FastRecovery(ss[k], ss[k].corrections[j]) })])
    IN  CHOOSE r \in
          { IF c = 0 THEN [name |-> "Error Recovery", score |-> 95, grade |-> "A"]
            ELSE CategoryScore("Error Recovery", recoveryScore(m, c, fastRecoveries)) :
              m \in {totalMessages}, c \in {totalCorrections} } : TRUE

allContent(s) ==
    CHOOSE r \in { JoinWith(q, " ") :
                     q \in {[k \in 1..Len(s.events) |-> s.events[k].content]} } : TRUE

scoreWorkspaceHygiene(ss) ==
    LET bonus == Cardinality({ k \in 1..Len(ss) :
                    \E all \in {allContent(ss[k])} :
                        Includes(all, ".claude/") \/ Includes(all, "CLAUDE.md") })
    IN  CategoryScore("Workspace Hygiene",
                      clamp(75 + (IF bonus > 0 THEN Min(bonus * 5, 20) ELSE 0), 1))

\* /CLAUDE\.md|\.claude\/|checkpoint|context|README/i.test(s)
ContextDocRe(s) ==
    \E t \in {toLowerCase(s)} :
        \E w \in {"claude.md", ".claude/", "checkpoint", "context", "readme"} : Includes(t, w)

readsContext(s) ==
    LET first3Tools == SliceTo(s.toolCalls, 3)
    IN  \E k \in 1..Len(first3Tools) : ContextDocRe(first3Tools[k].content)

scoreCrossSessionContinuity(ss) ==
    IF Len(ss) = 0 THEN [name |-> "Cross-Session Continuity", score |-> 75, grade |-> "B"]
    ELSE LET good == Cardinality({ k \in 1..Len(ss) : readsContext(ss[k]) })
         IN  CategoryScore("Cross-Session Continuity", clamp(pct(good, Len(ss)), 1))

\* /test|build|lint|check|verify|jest|vitest|pytest|cargo.test/i.test(s)
VerifyRe(s) ==
    \E t \in {toLowerCase(s)} :
        \/ \E w \in {"test", "build", "lint", "check", "verify", "jest", "vitest", "pytest"} :
              Includes(t, w)
        \/ \E k \in 1..(Len(t) - 9) :
              /\ SubSeq(t, k, k + 4) = "cargo"
              /\ CharAt(t, k + 5) \notin {"\n", "\r"}
              /\ SubSeq(t, k + 6, k + 9) = "test"

hasVerification(s) ==
    LET totalEvents == Len(s.events)
    IN  \E j \in ((9 * totalEvents) \div 10 + 1)..totalEvents :
            s.events[j].type = "tool_call" /\ VerifyRe(s.events[j].content)

scoreVerification(ss) ==
    IF Len(ss) = 0 THEN [name |-> "Verification", score |-> 75, grade |-> "B"]
    ELSE LET verified == Cardinality({ k \in 1..Len(ss) : hasVerification(ss[k]) })
         IN  CategoryScore("Verification", clamp(pct(verified, Len(ss)), 1))

summarize_floorMean(cats, project, period) ==
    LET total == SumSeq([k \in 1..Len(cats) |-> cats[k].score])
        overall == clamp(total \div Len(cats), 1)
        hi == MaxOf({ cats[k].score : k \in 1..Len(cats) })
        lo == MinOf({ cats[k].score : k \in 1..Len(cats) })
    IN  [project |-> project, period |-> period, overall |-> overall,
         overallGrade |-> letterGrade(overall), categories |-> cats,
         highlights |-> [best |-> cats[MinOf({ k \in 1..Len(cats) : cats[k].score = hi })],
                         worst |-> cats[MaxOf({ k \in 1..Len(cats) : cats[k].score = lo })]]]

\* the Scorecard for the twelve category scores
summarize(cats, project, period) ==
    LET total == SumSeq([k \in 1..Len(cats) |-> cats[k].score])
        overall == clamp(MathRound(total, Len(cats)), 1)
        \* [...cats].sort((a, b) => b.score - a.score) is stable: the
        \* first entry is the earliest category with the highest score, the
        \* last entry the latest category with the lowest score
        hi == MaxOf({ cats[k].score : k \in 1..Len(cats) })
        lo == MinOf({ cats[k].score : k \in 1..Len(cats) })
        best == cats[MinOf({ k \in 1..Len(cats) : cats[k].score = hi })]
        worst == cats[MaxOf({ k \in 1..Len(cats) : cats[k].score = lo })]
    IN  [project |-> project, period |-> period, overall |-> overall,
         overallGrade |-> letterGrade(overall), categories |-> cats,
         highlights |-> [best |-> best, worst |-> worst]]

computeScorecard(ss, project, period) ==
    CHOOSE sc \in
      { summarize(cats, project, period) :
          cats \in {<<scorePlans(ss), scoreClarification(ss), scoreDelegation(ss),
                            scoreFollowUpSpecificity(ss), scoreTokenEfficiency(ss),
                            scoreSequencing(ss), scoreCompactionManagement(ss),
                            scoreSessionLifecycle(ss), scoreErrorRecovery(ss),
                            scoreWorkspaceHygiene(ss), scoreCrossSessionContinuity(ss),
                            scoreVerification(ss)>>} } : TRUE

\* ---- the sessions a scorecard is computed from ----
LongPlan ==
    "Plan: rework the token refresh in /src/auth/jwt.ts, extend /src/auth/jwt.test.ts, "
    \o "then run the build and confirm nothing else in the auth module regressed"

LongTask ==
    "Survey every caller of the session store under /src/store and report, for each one, "
    \o "which fields it reads, which it writes, whether it holds a reference across an await, "
    \o "and which of them would break if the store started returning frozen copies of its records"

EventSamples ==
    { Ev("user_prompt", LongPlan, 50),
      Ev("user_prompt", "fix it", 50),
      Ev("user_prompt", "now look at /lib/db/pool.ts", 60),
      Ev("assistant_response", "Done.", 250),
      Ev("tool_call", "Read: {\"file_path\":\"/repo/CLAUDE.md\"}", 70),
      Ev("tool_call", "Bash: {\"command\":\"npm test\"}", 70),
      Ev("correction", "no, wrong file", 55),
      Ev("compaction", "", 200),
      Ev("git_commit", "feat: jwt refresh", 0),
      Ev("sub_agent_spawn", "explore the repo", 60) }

\* the events of one session file, each a distinct object
Numbered(evs) == [k \in 1..Len(evs) |-> [evs[k] EXCEPT !.id = k]]

Session(evs) == classifyEvents(Numbered(evs))

Repeat(e, n) == [k \in 1..n |-> e]

PlannedSession ==
    Session(<<Ev("user_prompt", LongPlan, 50),
              Ev("tool_call", "Read: {\"file_path\":\"/repo/CLAUDE.md\"}", 70),
              Ev("assistant_response", "Done.", 75),
              Ev("user_prompt", "now look at /lib/db/pool.ts", 76),
              Ev("tool_call", "Bash: {\"command\":\"npm test\"}", 78)>>)

VagueSession ==
    Session(<<Ev("user_prompt", "fix it", 50),
              Ev("assistant_response", "Done.", 60),
              Ev("correction", "no, wrong file", 90),
              Ev("user_prompt", "fix it", 95)>>)

CompactedSession ==
    Session(<<Ev("git_commit", "feat: jwt refresh", 0),
              Ev("compaction", "", 200),
              Ev("user_prompt", "fix it", 250)>>)

SessionSamples ==
    { PlannedSession, VagueSession, CompactedSession,
      Session(<<Ev("sub_agent_spawn", "explore the repo", 60),
                Ev("sub_agent_spawn", LongTask, 61)>>),
      Session(<<Ev("prompt", "fix it", 50), Ev("assistant", "Done.", 60)>>),
      Session(Repeat(Ev("tool_call", "Bash: {\"command\":\"npm test\"}", 70), 201)),
      Session(<<Ev("correction", "no, wrong file", 55)>>
              \o Repeat(Ev("assistant_response", "Done.", 250), 99)) }

ShortSessions == { Session(evs) : evs \in SeqsUpTo(EventSamples, MaxEvents) \ { <<>> } }

SessionLists ==
    { <<s>> : s \in ShortSessions } \cup SeqsUpTo(SessionSamples, MaxSessions)

\* generate_scorecard's scoring step on the loaded sessions
ComputeScorecard ==
    /\ scorecard = NotRun
    /\ scorecard' = computeScorecard(sessions, "demo", "day")
    /\ UNCHANGED <<otherVars, parserVars, triageVars, baselineVars, sessions, categories>>

InitScore ==
    /\ sessions \in SessionLists
    /\ scorecard = NotRun
    /\ categories = <<>>
    /\ ParserIdle /\ TriageIdle /\ BaselineIdle /\ OtherIdle

NextScore == ComputeScorecard

SpecScore == InitScore /\ [][NextScore]_vars

\* ---- the aggregation of computeScorecard on its own: overall, grade and
\* highlights as a function of the twelve category scores ----

\* the names of the categories in the order computeScorecard lists them
CategoryOrder ==
    <<"Plans", "Clarification", "Delegation", "Follow-up Specificity", "Token Efficiency",
      "Sequencing", "Compaction Management", "Session Lifecycle", "Error Recovery",
      "Workspace Hygiene", "Cross-Session Continuity", "Verification">>

ScoreSamples == {0, 45, 79, 80, 81, 95, 100}

\* the first j categories score a, the others b
CategoryVectors ==
    { [k \in 1..Len(CategoryOrder) |-> CategoryScore(CategoryOrder[k], IF k <= j THEN a ELSE b)] :
        j \in 0..Len(CategoryOrder), a \in ScoreSamples, b \in ScoreSamples }

\* computeScorecard from `const overall` on, for the category scores at hand
Summarize ==
    /\ scorecard = NotRun
    /\ scorecard' = summarize(categories, "demo", "day")
    /\ UNCHANGED <<otherVars, parserVars, triageVars, baselineVars, sessions, categories>>

InitOverall ==
    /\ categories \in CategoryVectors
    /\ sessions = <<>>
    /\ scorecard = NotRun
    /\ ParserIdle /\ TriageIdle /\ BaselineIdle /\ OtherIdle

NextOverall == Summarize

SpecOverall == InitOverall /\ [][NextOverall]_vars

\* ------------------------------------------------------------------------
\* Persisted baseline and the generate_scorecard handler (unnamed/part_011)
\* The lastUpdated stamp of a baseline is left out.
\* ------------------------------------------------------------------------
NoFile == [status |-> "absent"]

\* baseline.json between writeFileSync's truncating open and its write
TornFile == [status |-> "torn"]

null == [status |-> "null"]

\* baseline.json holding JSON that is not a BaselineData: the object {}
ShapelessFile == [status |-> "other-json"]

\* loadBaseline: null when the file is missing or is not valid JSON,
\* otherwise whatever JSON.parse returned
loadBaseline_neverFound(f) == null

\* loadBaseline: null when the file is missing or is not JSON, else the parsed data
loadBaseline(f) == IF f.status \in {"ok", "other-json"} THEN f ELSE null

\* updateBaseline raises TypeError at existing.categoryAverages[c.name] when
\* the loaded object has no categoryAverages
updateBaselineThrows(existing) == existing.status = "other-json"

saveBaseline_keepsExisting(f, data) == IF f.status = "ok" THEN f ELSE data

\* saveBaseline: the file's content becomes the serialized data
saveBaseline(f, data) == data

CategoryNames(sc) == { sc.categories[k].name : k \in 1..Len(sc.categories) }

CategoryScoreOf(sc, name) ==
    sc.categories[CHOOSE k \in 1..Len(sc.categories) : sc.categories[k].name = name].score

incrementalMean_unweighted(prev, n, value) == MathRound(prev + value, 2)

\* Math.round((prev * n + value) / newN)
incrementalMean(prev, n, value) == MathRound(prev * n + value, n + 1)

firstBaseline_countZero(sc) ==
    [status |-> "ok",
     categoryAverages |-> [name \in CategoryNames(sc) |-> CategoryScoreOf(sc, name)],
     overallAverage |-> sc.overall,
     sessionCount |-> 0]

\* updateBaseline when no baseline could be loaded
firstBaseline(sc) ==
    [status |-> "ok",
     categoryAverages |-> [name \in CategoryNames(sc) |-> CategoryScoreOf(sc, name)],
     overallAverage |-> sc.overall,
     sessionCount |-> 1]

updateBaseline_keepsCount(existing, sc) ==
    IF existing = null THEN firstBaseline(sc)
    ELSE [existing EXCEPT
            !.overallAverage = incrementalMean(@, existing.sessionCount, sc.overall),
            !.categoryAverages =
                [name \in DOMAIN @ |->
                    IF name \in CategoryNames(sc)
                    THEN incrementalMean(@[name], existing.sessionCount, CategoryScoreOf(sc, name))
                    ELSE @[name]]]

\* updateBaseline: the data it saves, given what its loadBaseline returned
updateBaseline(existing, sc) ==
    IF existing = null THEN firstBaseline(sc)
    ELSE LET n == existing.sessionCount
             old == existing.categoryAverages
         IN  [status |-> "ok",
              categoryAverages |->
                  [name \in (DOMAIN old) \cup CategoryNames(sc) |->
                      IF name \in CategoryNames(sc)
                      THEN LET score == CategoryScoreOf(sc, name)
                               prev == IF name \in DOMAIN old THEN old[name] ELSE score
                           IN  incrementalMean(prev, n, score)
                      ELSE old[name]],
              overallAverage |-> incrementalMean(existing.overallAverage, n, sc.overall),
              sessionCount |-> n + 1]

\* the parameters of one generate_scorecard call, with the sessions that
\* loadSessions finds for them
Params(report_type, period, hasSessionId, output, compareProjects, found) ==
    [report_type |-> report_type, period |-> period, session_id |-> hasSessionId,
     output |-> output, compare_projects |-> compareProjects, sessions |-> found]

\* the handler takes the trend branch
isTrend(prm) ==
    /\ \/ prm.report_type = "trend"
       \/ /\ prm.report_type = "scorecard"
          /\ prm.period \in {"week", "month"}
          /\ ~prm.session_id
    /\ ~(prm.report_type # "trend" /\ prm.period \notin {"week", "month"})

handlerNext_lookupLast(trend, step) ==
    IF step = "load-sessions" THEN (IF trend THEN "trend" ELSE "score")
    ELSE IF step = "trend" THEN "score"
    ELSE IF step = "score" THEN "update"
    ELSE IF step = "update" THEN (IF trend THEN "respond" ELSE "lookup")
    ELSE "respond"

\* the handler's control flow once sessions were found: the step that
\* follows `step` on the trend branch and on the regular scorecard branch
handlerNext(trend, step) ==
    IF step = "load-sessions" THEN (IF trend THEN "trend" ELSE "score")
    ELSE IF step = "trend" THEN "score"
    ELSE IF step = "score" THEN (IF trend THEN "update" ELSE "lookup")
    ELSE IF step = "lookup" THEN "update"
    ELSE "respond"

ParamSamples ==
    { Params("scorecard", "day", FALSE, "markdown", 0, <<PlannedSession>>),
      Params("scorecard", "day", FALSE, "pdf", 0, <<CompactedSession>>),
      Params("scorecard", "week", FALSE, "markdown", 0, <<CompactedSession>>),
      Params("trend", "day", FALSE, "pdf", 0, <<PlannedSession>>),
      Params("scorecard", "week", TRUE, "markdown", 0, <<VagueSession>>),
      Params("scorecard", "day", FALSE, "markdown", 0, <<>>),
      Params("comparative", "day", FALSE, "pdf", 2, <<>>),
      Params("comparative", "day", FALSE, "markdown", 1, <<>>) }

\* invocations that run in separate server processes
RaceParams ==
    { Params("scorecard", "day", FALSE, "markdown", 0, <<PlannedSession>>),
      Params("scorecard", "week", FALSE, "markdown", 0, <<CompactedSession>>) }

\* ---- report rendering ----
\* A rendered report is the sequence of its lines (the code joins them with
\* "\n").  The emoji, arrows and dashes of the templates are written in
\* ASCII.  Evidence strings, examples and the date are not part of the
\* modelled Scorecard and their lines and fields are left out.

trendArrow(current, previous) ==
    IF current - previous > 5 THEN "^"
    ELSE IF current - previous < -5 THEN "v"
    ELSE "="

headerLines(sc) ==
    << "# Prompt Discipline Scorecard",
       "**Project:** " \o sc.project \o " | **Period:** " \o sc.period
           \o " | **Overall: " \o sc.overallGrade \o " (" \o ToString(sc.overall) \o "/100)**",
       "" >>

scoreRow(i, c) ==
    "| " \o ToString(i) \o " | " \o c.name \o " | " \o ToString(c.score)
        \o " | " \o c.grade \o " |"

avgCol(c, baseline) ==
    IF c.name \in DOMAIN baseline.categoryAverages
    THEN trendArrow(c.score, baseline.categoryAverages[c.name]) \o " "
             \o letterGrade(baseline.categoryAverages[c.name])
             \o " (" \o ToString(baseline.categoryAverages[c.name]) \o ")"
    ELSE "-"

highlightLines(sc) ==
    << "", "## Highlights",
       "- **Best:** " \o sc.highlights.best.name \o " (" \o sc.highlights.best.grade \o ")",
       "- **Worst:** " \o sc.highlights.worst.name \o " (" \o sc.highlights.worst.grade \o ")" >>

breakdownLines(sc) ==
    << "", "## Detailed Breakdown" >>
        \o [k \in 1..(2 * Len(sc.categories)) |->
               IF k % 2 = 1 THEN ""
               ELSE "### " \o ToString(k \div 2) \o ". " \o sc.categories[k \div 2].name
                        \o " - " \o sc.categories[k \div 2].grade
                        \o " (" \o ToString(sc.categories[k \div 2].score) \o "/100)"]

toMarkdown(sc) ==
    headerLines(sc)
        \o << "## Category Scores",
              "| # | Category | Score | Grade |",
              "|---|----------|-------|-------|" >>
        \o [i \in 1..Len(sc.categories) |-> scoreRow(i, sc.categories[i])]
        \o highlightLines(sc) \o breakdownLines(sc)

toMarkdownWithBaseline(sc, baseline) ==
    IF baseline # null
    THEN headerLines(sc)
             \o << "## Category Scores",
                   "| # | Category | Score | Grade | vs Avg |",
                   "|---|----------|-------|-------|--------|" >>
             \o [i \in 1..Len(sc.categories) |->
                    scoreRow(i, sc.categories[i]) \o " " \o avgCol(sc.categories[i], baseline) \o " |"]
             \o highlightLines(sc) \o breakdownLines(sc)
    ELSE headerLines(sc)
             \o << "## Category Scores",
                   "| # | Category | Score | Grade |",
                   "|---|----------|-------|-------|" >>
             \o [i \in 1..Len(sc.categories) |-> scoreRow(i, sc.categories[i])]
             \o highlightLines(sc) \o breakdownLines(sc)

\* the TrendReport as far as the handler model holds it: daily scores, stats,
\* category trends and prompts of the report are left out
TrendReport(project, period, baseline) ==
    [project |-> project, period |-> period, baseline |-> baseline]

trendToMarkdown(tr) ==
    << "# " \o (IF tr.period = "week" THEN "Weekly" ELSE "Monthly") \o " Trend Report",
       "**Project:** " \o tr.project \o " | **Period:** " \o tr.period,
       "",
       "## Category Trends",
       "| Category | Score | Trend |" \o (IF tr.baseline # null THEN " vs Avg |" ELSE "") >>

\* the ComparativeReport as far as the handler model holds it: the period and
\* the number of projects with data
ComparativeReport(period, projects) == [period |-> period, projects |-> projects]

comparativeToMarkdown(cr) ==
    << "# Comparative Report",
       "**Period:** " \o cr.period \o " | **Projects:** " \o ToString(cr.projects),
       "" >>
        \o (IF cr.projects = 0 THEN << "No projects with data found." >> ELSE <<>>)

\* ---- what the tool call returns ----
Ok(text) == [isError |-> FALSE, text |-> text]

\* an exception that leaves the handler
Thrown(err) == [isError |-> TRUE, text |-> << err >>]

PdfError == "Error: browserType.launch: Executable doesn't exist"

ReportKind(i) ==
    IF i.params.report_type = "comparative" THEN "comparative"
    ELSE IF i.trend THEN "trend"
    ELSE "scorecard"

\* the Markdown of the report the invocation built
ReportMarkdown(i) ==
    IF ReportKind(i) = "comparative"
    THEN comparativeToMarkdown(ComparativeReport(i.params.period, i.params.compare_projects))
    ELSE IF ReportKind(i) = "trend"
    THEN trendToMarkdown(TrendReport("demo", i.params.period, i.baseline))
    ELSE toMarkdownWithBaseline(i.sc, i.baseline)

\* the try branch after generatePDF resolved
pdfSaved(kind, md) ==
    Ok(<< (IF kind = "comparative" THEN "[ok] Comparative PDF saved to /tmp/comparative.pdf"
           ELSE IF kind = "trend" THEN "[ok] Trend PDF saved to /tmp/trend.pdf"
           ELSE "[ok] PDF scorecard saved to /tmp/scorecard.pdf"),
          "" >> \o md)

pdfFailed_rethrow(kind, err, md) == Thrown(err)

\* the catch branch after generatePDF rejected with err
pdfFailed(kind, err, md) ==
    Ok(<< (IF kind = "scorecard"
           THEN "[warn] PDF generation failed (" \o err \o "). Falling back to markdown:"
           ELSE "[warn] PDF failed (" \o err \o "). Markdown:"),
          "" >> \o md)

IdleInv ==
    [pc |-> "idle", params |-> NotRun, trend |-> FALSE, sc |-> NotRun,
     baseline |-> NotRun, existing |-> NotRun, response |-> NotRun, result |-> NotRun,
     steps |-> <<>>, atStart |-> NotRun]

\* the invocation is inside its handler and not suspended at an await
InSync(i) == i.pc \notin {"idle", "pdf", "done", "failed"}

\* within one server process a handler runs without interruption until it
\* awaits generatePDF or returns
MayRun(p) == \A q \in DOMAIN inv : q # p => ~InSync(inv[q])

Stepped(p, label) == Append(inv[p].steps, label)

\* handler entry up to the branch taken: comparative report, "No sessions
\* found", or on to the trend / regular scorecard branch
Invoke(p, prm) ==
    /\ inv[p].pc = "idle"
    /\ \A q \in DOMAIN inv : q < p => inv[q].pc # "idle"
    /\ LET started == [inv[p] EXCEPT !.params = prm, !.atStart = baselineFile]
       IN  inv' = [inv EXCEPT ![p] =
             IF prm.report_type = "comparative"
             THEN IF prm.compare_projects < 2
                  THEN [started EXCEPT !.pc = "done", !.steps = <<"comparative">>,
                            !.response = [kind |-> "needs-two-projects"],
                            !.result = Ok(<< "Comparative report requires at least 2 projects in compare_projects." >>)]
                  ELSE IF prm.output = "pdf"
                  THEN [started EXCEPT !.pc = "pdf", !.steps = <<"comparative">>,
                            !.response = [kind |-> "comparative"]]
                  ELSE [started EXCEPT !.pc = "done", !.steps = <<"comparative">>,
                            !.response = [kind |-> "comparative-markdown"],
                            !.result = Ok(ReportMarkdown(started))]
             ELSE IF Len(prm.sessions) = 0
             THEN [started EXCEPT !.pc = "done", !.steps = <<"load-sessions">>,
                       !.response = [kind |-> "no-sessions"],
                       !.result = Ok(<< "No sessions found matching the criteria. Try broadening the time period or checking the project name." >>)]
             ELSE [started EXCEPT !.pc = handlerNext(isTrend(prm), "load-sessions"),
                       !.trend = isTrend(prm), !.steps = <<"load-sessions">>]]
    /\ UNCHANGED <<otherVars, parserVars, triageVars, scoreVars, baselineFile, history>>

\* buildTrendReport: scoreDailyData, then loadBaseline; the report keeps the
\* loaded baseline
BuildTrendReport(p) ==
    /\ inv[p].pc = "trend"
    /\ inv' = [inv EXCEPT ![p].baseline = loadBaseline(baselineFile),
                          ![p].steps = inv[p].steps \o <<"score-daily", "lookup">>,
                          ![p].pc = handlerNext(inv[p].trend, "trend")]
    /\ UNCHANGED <<otherVars, parserVars, triageVars, scoreVars, baselineFile, history>>

\* computeScorecard(sessions, projectName, params.period)
ScoreSessions(p) ==
    /\ inv[p].pc = "score"
    /\ inv' = [inv EXCEPT ![p].sc = computeScorecard(inv[p].params.sessions, "demo",
                                                     inv[p].params.period),
                          ![p].steps = Stepped(p, "score"),
                          ![p].pc = handlerNext(inv[p].trend, "score")]
    /\ UNCHANGED <<otherVars, parserVars, triageVars, scoreVars, baselineFile, history>>

\* const baseline = loadBaseline(projectName) of the regular scorecard branch
LookupBaseline(p) ==
    /\ inv[p].pc = "lookup"
    /\ inv' = [inv EXCEPT ![p].baseline = loadBaseline(baselineFile),
                          ![p].steps = Stepped(p, "lookup"),
                          ![p].pc = handlerNext(inv[p].trend, "lookup")]
    /\ UNCHANGED <<otherVars, parserVars, triageVars, scoreVars, baselineFile, history>>

\* updateBaseline(projectName, scorecard), which is synchronous: within one
\* process its load and its save are one step
UpdateBaseline(p) ==
    /\ inv[p].pc = "update"
    /\ LET existing == loadBaseline(baselineFile)
       IN  IF updateBaselineThrows(existing)
           THEN \* the exception leaves the handler: the tool call fails
                /\ inv' = [inv EXCEPT ![p].existing = existing,
                                      ![p].steps = Stepped(p, "update-threw"),
                                      ![p].response = [kind |-> "error"],
                                      ![p].result = Thrown("TypeError: Cannot read properties of undefined"),
                                      ![p].pc = "failed"]
                /\ UNCHANGED <<otherVars, baselineFile, history>>
           ELSE /\ baselineFile' = saveBaseline(baselineFile, updateBaseline(existing, inv[p].sc))
                /\ inv' = [inv EXCEPT ![p].existing = existing,
                                      ![p].steps = Stepped(p, "update"),
                                      ![p].pc = handlerNext(inv[p].trend, "update")]
                /\ history' = Append(history, [inv |-> p, overall |-> inv[p].sc.overall])
    /\ UNCHANGED <<otherVars, parserVars, triageVars, scoreVars>>

\* the end of a scoring branch: return the markdown, or start generatePDF
Respond(p) ==
    /\ inv[p].pc = "respond"
    /\ inv' = [inv EXCEPT
                 ![p].response = [kind |-> IF inv[p].trend THEN "trend" ELSE "scorecard",
                                  scorecard |-> inv[p].sc,
                                  baseline |-> inv[p].baseline],
                 ![p].result = IF inv[p].params.output = "pdf" THEN NotRun
                               ELSE Ok(ReportMarkdown(inv[p])),
                 ![p].steps = Stepped(p, "respond"),
                 ![p].pc = IF inv[p].params.output = "pdf" THEN "pdf" ELSE "done"]
    /\ UNCHANGED <<otherVars, parserVars, triageVars, scoreVars, baselineFile, history>>

\* await generatePDF settles: the PDF was written, or generatePDF rejected and
\* the catch of the branch returns a warning followed by the markdown report
GeneratePDF(p, ok) ==
    /\ inv[p].pc = "pdf"
    /\ inv' = [inv EXCEPT ![p].pc = "done",
                          ![p].result =
                              IF ok THEN pdfSaved(ReportKind(inv[p]), ReportMarkdown(inv[p]))
                              ELSE pdfFailed(ReportKind(inv[p]), PdfError, ReportMarkdown(inv[p])),
                          ![p].steps = Stepped(p, IF ok THEN "pdf-saved" ELSE "pdf-failed")]
    /\ UNCHANGED <<otherVars, parserVars, triageVars, scoreVars, baselineFile, history>>

\* ---- one server process: handlers interleave only at await generatePDF ----
InitBaseline ==
    /\ baselineFile = NoFile
    /\ inv = [p \in 1..MaxInvocations |-> IdleInv]
    /\ history = <<>>
    /\ ParserIdle /\ TriageIdle /\ ScoreIdle /\ OtherIdle

NextBaseline ==
    \E p \in DOMAIN inv :
        /\ MayRun(p)
        /\ \/ \E prm \in ParamSamples : Invoke(p, prm)
           \/ BuildTrendReport(p)
           \/ ScoreSessions(p)
           \/ LookupBaseline(p)
           \/ UpdateBaseline(p)
           \/ Respond(p)
           \/ \E ok \in BOOLEAN : GeneratePDF(p, ok)

SpecBaseline == InitBaseline /\ [][NextBaseline]_vars

\* ---- the same process starting from a baseline.json that is missing, is
\* not valid JSON, or is JSON of another shape ----
InitFirstRun ==
    /\ baselineFile \in {NoFile, TornFile, ShapelessFile}
    /\ inv = [p \in 1..MaxInvocations |-> IdleInv]
    /\ history = <<>>
    /\ ParserIdle /\ TriageIdle /\ ScoreIdle /\ OtherIdle

SpecFirstRun == InitFirstRun /\ [][NextBaseline]_vars

\* ---- several server processes sharing ~/.preflight: the file reads and
\* writes of their handlers interleave freely ----

\* updateBaseline's loadBaseline
UpdateLoad(p) ==
    /\ inv[p].pc = "update"
    /\ inv' = [inv EXCEPT ![p].existing = loadBaseline(baselineFile),
                          ![p].steps = Stepped(p, "update"),
                          ![p].pc = "save-open"]
    /\ UNCHANGED <<otherVars, parserVars, triageVars, scoreVars, baselineFile, history>>

\* saveBaseline's writeFileSync opens the file, which truncates it
SaveOpen(p) ==
    /\ inv[p].pc = "save-open"
    /\ baselineFile' = TornFile
    /\ inv' = [inv EXCEPT ![p].pc = "save-write"]
    /\ UNCHANGED <<otherVars, parserVars, triageVars, scoreVars, history>>

\* writeFileSync writes the data computed from what UpdateLoad read
SaveWrite(p) ==
    /\ inv[p].pc = "save-write"
    /\ baselineFile' = saveBaseline(baselineFile, updateBaseline(inv[p].existing, inv[p].sc))
    /\ inv' = [inv EXCEPT ![p].pc = handlerNext(inv[p].trend, "update")]
    /\ history' = Append(history, [inv |-> p, overall |-> inv[p].sc.overall])
    /\ UNCHANGED <<otherVars, parserVars, triageVars, scoreVars>>

\* a baseline left by an earlier run
StoredBaselines == { firstBaseline(computeScorecard(<<VagueSession>>, "demo", "day")) }

InitRace ==
    /\ baselineFile \in {NoFile} \cup StoredBaselines
    /\ inv = [p \in 1..MaxProcs |-> IdleInv]
    /\ history = <<>>
    /\ ParserIdle /\ TriageIdle /\ ScoreIdle /\ OtherIdle

NextRace ==
    \E p \in DOMAIN inv :
        \/ \E prm \in RaceParams : Invoke(p, prm)
        \/ BuildTrendReport(p)
        \/ ScoreSessions(p)
        \/ LookupBaseline(p)
        \/ UpdateLoad(p)
        \/ SaveOpen(p)
        \/ SaveWrite(p)
        \/ Respond(p)

SpecRace == InitRace /\ [][NextRace]_vars

\* ------------------------------------------------------------------------
\* Parser properties
\* ------------------------------------------------------------------------
\* the file with every line that is not valid JSON removed (its line number kept)
ValidOnly(lines) ==
    [k \in 1..Len(lines) |-> IF lines[k].raw = "malformed" THEN BlankLine ELSE lines[k]]

MalformedLineNumbers(lines) == { k \in 1..Len(lines) : lines[k].raw = "malformed" }

IsRecord(line) == line.raw = "json" /\ ~line.isNull

\* the record immediately before line k (blank and malformed lines are not records)
PrevRecordType(lines, k) ==
    LET before == { j \in 1..(k - 1) : IsRecord(lines[j]) }
    IN  IF before = {} THEN ""
        ELSE lines[CHOOSE j \in before : \A m \in before : m <= j].type

\* the most recent user or assistant record before line k
LastTurn(lines, k) ==
    LET before == { j \in 1..(k - 1) :
                      IsRecord(lines[j]) /\ lines[j].type \in {"user", "assistant"} }
    IN  IF before = {} THEN ""
        ELSE lines[CHOOSE j \in before : \A m \in before : m <= j].type

IsCorrectionText(line) ==
    /\ IsRecord(line) /\ line.type = "user"
    /\ ~ThrowsOnBlocks(line.msgContent)
    /\ isCorrection(extractText(line.msgContent))

EventsOfLine(k) == SelectSeq(parseResult.events, LAMBDA e : e.source_line = k)

\* C1: for any mix of valid JSON lines and lines that are not valid JSON, parsing
\* never throws and returns exactly the events of the valid lines, in file order,
\* with one diagnostic per unparseable line.
C1_ParserRobustness ==
    (fileExists /\ parseResult # NotRun) =>
        /\ parseResult.status = "returned"
        /\ parseResult.events = parseLinesSync(ValidOnly(file)).events
        /\ Range(parseResult.stderr) = MalformedLineNumbers(file)

\* C2 as stated: a correction event only directly after an assistant record; the
\* same text first in the file or directly after a user record is a prompt.
C2_CorrectionOnlyDirectlyAfterAssistant ==
    parseResult.status = "returned" =>
        \A k \in 1..Len(file) :
            IsCorrectionText(file[k]) =>
                /\ Len(EventsOfLine(k)) = 1
                /\ EventsOfLine(k)[1].type = "correction"
                       => PrevRecordType(file, k) = "assistant"
                /\ PrevRecordType(file, k) \in {"", "user"}
                       => EventsOfLine(k)[1].type = "prompt"

\* C2 amended: a user record with correction text yields a correction event exactly
\* when the most recent user-or-assistant record before it is an assistant record
\* (records of other types in between do not count), and a prompt event otherwise.
C2_CorrectionGating ==
    parseResult.status = "returned" =>
        /\ \A k \in 1..Len(file) :
              IsCorrectionText(file[k]) =>
                  /\ Len(EventsOfLine(k)) = 1
                  /\ EventsOfLine(k)[1].type =
                        IF LastTurn(file, k) = "assistant" THEN "correction" ELSE "prompt"
        /\ \A e \in Range(parseResult.events) :
              e.type = "correction" => IsCorrectionText(file[e.source_line])

C2_Witness ==
    /\ parseResult.status = "returned"
    /\ \E e1, e2 \in Range(parseResult.events) :
          /\ e1.type = "correction"
          /\ e2.type = "prompt" /\ isCorrection(e2.content)
          /\ e2.source_line < e1.source_line

\* ------------------------------------------------------------------------
\* Triage properties
\* ------------------------------------------------------------------------
\* the prompt contains, case-insensitively, one of the keywords
ContainsAny(s, kws) ==
    LET t == toLowerCase(s)
    IN  \E kw \in Range(kws) : Includes(t, toLowerCase(kw))

TriageDone == triageResult.main # NotRun /\ triageResult.cfgts # NotRun

Escalated == {"ambiguous", "cross-service", "multi-step"}

C5_MultiStepWins ==
    /\ (triageResult.main # NotRun /\ ~ContainsAny(prompt, cfg.skip) /\ isMultiStep(prompt))
          => triageResult.main.level = "multi-step"
    /\ (triageResult.cfgts # NotRun /\ ~ContainsAny(prompt, cfg.skip)
           /\ isMultiStep_cfgts(prompt))
          => triageResult.cfgts.level = "multi-step"

\* ------------------------------------------------------------------------
\* Scorecard properties
\* ------------------------------------------------------------------------
ScoreOf(name) ==
    LET cs == scorecard.categories
    IN  cs[CHOOSE k \in 1..Len(cs) : cs[k].name = name].score

\* C6: whatever the parsed sessions are (none at all, sessions without
\* events of some kind, sessions with hundreds of events), computeScorecard
\* returns twelve category scores and each of them lies in 0..100.
C6_ScoresWithinRange ==
    scorecard # NotRun =>
        /\ Len(scorecard.categories) = 12
        /\ \A k \in 1..Len(scorecard.categories) : scorecard.categories[k].score \in 0..100

\* a scorecard whose error-recovery value before clamping is below zero
\* (more than one event in five is a correction)
C6_Witness ==
    /\ scorecard # NotRun
    /\ LET totalMessages == SumSeq([k \in 1..Len(sessions) |-> Len(sessions[k].events)])
           totalCorrections == SumSeq([k \in 1..Len(sessions) |-> Len(sessions[k].corrections)])
       IN  /\ totalCorrections > 0
           /\ 100 * totalMessages - 500 * totalCorrections < 0
    /\ ScoreOf("Error Recovery") \in 0..100

\* ------------------------------------------------------------------------
\* Baseline properties
\* ------------------------------------------------------------------------
Scores == [k \in 1..Len(history) |-> history[k].overall]

\* the invocation whose update was saved last
LastSaver == history[Len(history)].inv

\* C7: when the stored baseline holds overall average a over n >= 1
\* sessions and one more scorecard with overall score s is folded in, the
\* stored overall average becomes round((a*n + s)/(n+1)), sessionCount
\* becomes n+1, and every category average follows the same formula with
\* that category's score.
C7_IncrementalUpdate ==
    [][ (history' # history /\ baselineFile.status = "ok" /\ baselineFile.sessionCount >= 1) =>
          LET a == baselineFile.overallAverage
              n == baselineFile.sessionCount
              sc == inv[history'[Len(history')].inv].sc
          IN  /\ baselineFile'.status = "ok"
              /\ baselineFile'.overallAverage = MathRound(a * n + sc.overall, n + 1)
              /\ baselineFile'.sessionCount = n + 1
              /\ DOMAIN baselineFile'.categoryAverages = DOMAIN baselineFile.categoryAverages
              /\ \A k \in 1..Len(sc.categories) :
                    baselineFile'.categoryAverages[sc.categories[k].name]
                        = MathRound(baselineFile.categoryAverages[sc.categories[k].name] * n
                                        + sc.categories[k].score, n + 1) ]_vars

\* a second scorecard was folded into a stored baseline, the exact mean of
\* the two overall scores falling on a half
C7_Witness ==
    /\ Len(history) = 2
    /\ (Scores[1] + Scores[2]) % 2 = 1
    /\ baselineFile.status = "ok"
    /\ baselineFile.sessionCount = 2
    /\ 2 * baselineFile.overallAverage = Scores[1] + Scores[2] + 1

\* invocations p and q both loaded the same stored baseline inside
\* updateBaseline, both have written, q wrote last and no further write
\* has opened the file since
BothWroteFromSameRead(p, q) ==
    /\ p # q
    /\ \A r \in DOMAIN inv : inv[r].pc # "save-write"
    /\ inv[p].existing = inv[q].existing
    /\ inv[q].existing # NotRun
    /\ inv[q].existing.status = "ok"
    /\ inv[p].pc \in {"respond", "done"}
    /\ inv[q].pc \in {"respond", "done"}
    /\ \E k \in 1..Len(history) : history[k].inv = p
    /\ history # <<>> /\ LastSaver = q

\* C8: invocations in separate processes can lose a baseline update.  When
\* two of them read the same stored baseline (sessionCount n) and both have
\* written, the file left by the later writer has sessionCount n+1 and its
\* averages fold in the later writer's scorecard only; nothing in the steps
\* of updateBaseline keeps the second read from preceding the first write.
C8_LostUpdate ==
    \A p, q \in DOMAIN inv :
        BothWroteFromSameRead(p, q) =>
            LET b == inv[q].existing
                n == b.sessionCount
                sc == inv[q].sc
            IN  /\ baselineFile.status = "ok"
                /\ baselineFile.sessionCount = n + 1
                /\ baselineFile.overallAverage = MathRound(b.overallAverage * n + sc.overall, n + 1)
                /\ \A k \in 1..Len(sc.categories) :
                      baselineFile.categoryAverages[sc.categories[k].name]
                          = MathRound(b.categoryAverages[sc.categories[k].name] * n
                                          + sc.categories[k].score, n + 1)

\* two invocations with different overall scores both wrote from the same
\* read: two updates were saved, the count grew by one
C8_Witness ==
    \E p, q \in DOMAIN inv :
        /\ BothWroteFromSameRead(p, q)
        /\ inv[p].sc.overall # inv[q].sc.overall
        /\ Len(history) >= 2
        /\ baselineFile.status = "ok"
        /\ baselineFile.sessionCount = inv[q].existing.sessionCount + 1

\* position of the first occurrence of a step in an invocation's trace, 0 if absent
FirstPos(steps, label) ==
    IF \E k \in 1..Len(steps) : steps[k] = label
    THEN MinOf({ k \in 1..Len(steps) : steps[k] = label })
    ELSE 0

ScoringPositions(steps) == { k \in 1..Len(steps) : steps[k] \in {"score", "score-daily"} }

\* C9 as stated: in every invocation that scores sessions the baseline is
\* looked up before any scoring and updated after it.
C9_LookupBeforeScoring ==
    \A p \in DOMAIN inv :
        LET steps == inv[p].steps
        IN  (inv[p].response # NotRun /\ ScoringPositions(steps) # {}) =>
                /\ FirstPos(steps, "lookup") > 0
                /\ \A k \in ScoringPositions(steps) : FirstPos(steps, "lookup") < k
                /\ \A k \in ScoringPositions(steps) : k < FirstPos(steps, "update")

\* C9: in every invocation that scores sessions the baseline is looked up
\* before it is updated and updated after the scorecard is computed, so the
\* baseline the report compares against is what was stored when the
\* invocation began and does not include the invocation's own scorecard
\* (the lookup itself may follow the scoring).
C9_LookupBeforeUpdate ==
    \A p \in DOMAIN inv :
        LET steps == inv[p].steps
        IN  (inv[p].response # NotRun /\ ScoringPositions(steps) # {}) =>
                /\ FirstPos(steps, "lookup") > 0
                /\ FirstPos(steps, "lookup") < FirstPos(steps, "update")
                /\ FirstPos(steps, "score") < FirstPos(steps, "update")
                /\ inv[p].response.baseline = loadBaseline(inv[p].atStart)
                /\ inv[p].response.baseline # updateBaseline(loadBaseline(inv[p].atStart), inv[p].sc)

\* a regular scorecard report that was compared against a stored baseline
C9_Witness ==
    \E p \in DOMAIN inv :
        /\ inv[p].response # NotRun
        /\ ~inv[p].trend
        /\ FirstPos(inv[p].steps, "score") > 0
        /\ inv[p].response.baseline # null
        /\ inv[p].response.baseline.sessionCount >= 1

\* C10 as stated: after k >= 1 saved updates from no baseline the stored
\* overallAverage is the arithmetic mean of all k overall scores, rounded.
C10_LifetimeMean ==
    history # <<>> =>
        /\ baselineFile.status = "ok"
        /\ baselineFile.overallAverage = MathRound(SumSeq(Scores), Len(history))

\* the running average of the first k scores, rounded at every step
RECURSIVE RunningAverage(_, _)
RunningAverage(scores, k) ==
    IF k = 1 THEN scores[1]
    ELSE MathRound(RunningAverage(scores, k - 1) * (k - 1) + scores[k], k)

\* C10: the baseline never decays or windows: after k >= 1 saved updates
\* from no baseline sessionCount is k and the stored overallAverage is the
\* running average avg(1) = s1, avg(i+1) = round((avg(i)*i + s(i+1))/(i+1)),
\* which lies between the lowest and the highest score and, for k <= 2, is
\* the rounded arithmetic mean.
C10_RunningAverage ==
    history # <<>> =>
        /\ baselineFile.status = "ok"
        /\ baselineFile.sessionCount = Len(history)
        /\ baselineFile.overallAverage = RunningAverage(Scores, Len(history))
        /\ baselineFile.overallAverage >= MinOf(Range(Scores))
        /\ baselineFile.overallAverage <= MaxOf(Range(Scores))
        /\ Len(history) <= 2 =>
              baselineFile.overallAverage = MathRound(SumSeq(Scores), Len(history))

\* three updates after which the stored average is not the rounded mean
C10_Witness ==
    /\ Len(history) = 3
    /\ baselineFile.status = "ok"
    /\ baselineFile.sessionCount = 3
    /\ baselineFile.overallAverage # MathRound(SumSeq(Scores), 3)

\* ------------------------------------------------------------------------
\* Overall score properties
\* ------------------------------------------------------------------------
AllScore(v) == \A k \in 1..Len(categories) : categories[k].score = v

\* C11: the overall score is the arithmetic mean of the twelve category
\* scores, each with the same weight, rounded to the nearest integer (a half
\* rounds up); the overall grade is the letter grade of that overall score;
\* twelve scores of 80 give overall 80 and grade "B+".
C11_OverallIsRoundedMean ==
    scorecard # NotRun =>
        LET total == SumSeq([k \in 1..Len(categories) |-> categories[k].score])
            n == Len(categories)
        IN  /\ n = 12
            /\ 2 * n * scorecard.overall <= 2 * total + n
            /\ 2 * total + n < 2 * n * (scorecard.overall + 1)
            /\ scorecard.overallGrade = letterGrade(scorecard.overall)
            /\ AllScore(80) => scorecard.overall = 80 /\ scorecard.overallGrade = "B+"

\* category scores whose mean falls strictly between two integers, above
\* the half, have been aggregated
C11_Witness ==
    /\ scorecard # NotRun
    /\ LET total == SumSeq([k \in 1..Len(categories) |-> categories[k].score])
       IN  (2 * total) % 24 > 12
    /\ scorecard.overallGrade = letterGrade(scorecard.overall)

\* ------------------------------------------------------------------------
\* Missing and empty session files
\* ------------------------------------------------------------------------
NoValidLine == \A k \in 1..Len(file) : file[k].raw \in {"blank", "malformed"}

\* C12: parsing a path at which there is no file returns an empty event
\* list rather than an error, and so does parsing a file none of whose lines
\* is valid.
C12_MissingOrEmptyFile ==
    (parseResult # NotRun /\ (~fileExists \/ NoValidLine)) =>
        parseResult.status = "returned" /\ parseResult.events = <<>>

\* ------------------------------------------------------------------------
\* Streaming and in-memory parsing
\* ------------------------------------------------------------------------

\* C13: for every file content parseSessionAsync and parseSession end the
\* same way and produce the same events (types, contents, timestamps,
\* branch, session_id and source_line) in the same order.
C13_StreamingEqualsInMemory ==
    (parseResult # NotRun /\ asyncResult # NotRun) =>
        /\ asyncResult.status = parseResult.status
        /\ asyncResult.events = parseResult.events

\* ------------------------------------------------------------------------
\* Correction phrases
\* ------------------------------------------------------------------------
CorrectionPhrases ==
    {"no", "wrong", "not that", "actually", "instead", "i meant", "undo", "revert"}

MatchesCorrectionPhrase(text) == \E w \in CorrectionPhrases : MatchWordI(text, w)

\* C14: when the previous conversational turn was the assistant's, a user
\* text yields a correction event exactly when it matches, whatever the case
\* of its letters, one of the eight phrases no, wrong, not that, actually,
\* instead, i meant, undo, revert; otherwise it yields a prompt event.
C14_CorrectionPhraseSet ==
    parseResult.status = "returned" =>
        \A k \in 1..Len(file) :
            ( /\ IsRecord(file[k]) /\ file[k].type = "user"
              /\ ~ThrowsOnBlocks(file[k].msgContent)
              /\ extractText(file[k].msgContent) # ""
              /\ LastTurn(file, k) = "assistant" ) =>
                /\ Len(EventsOfLine(k)) = 1
                /\ EventsOfLine(k)[1].type =
                      IF MatchesCorrectionPhrase(extractText(file[k].msgContent))
                      THEN "correction" ELSE "prompt"

\* ------------------------------------------------------------------------
\* First-run semantics
\* ------------------------------------------------------------------------

\* invocation p scored sessions and came to the end of its synchronous part
\* having started with a baseline.json that was absent or did not hold a
\* baseline
RanWithoutBaseline(p) ==
    /\ inv[p].pc \in {"pdf", "done", "failed"}
    /\ inv[p].params.report_type # "comparative"
    /\ Len(inv[p].params.sessions) > 0
    /\ inv[p].atStart.status # "ok"

\* C15: with the baseline file absent or corrupt the scorecard computation
\* does not fail, shows no baseline comparison, and writes a fresh baseline
\* with sessionCount 1 whose averages are the scores of the current
\* scorecard.
C15_FirstRunSemantics ==
    \A p \in DOMAIN inv :
        RanWithoutBaseline(p) =>
            /\ inv[p].pc # "failed"
            /\ inv[p].response.baseline = null
            /\ inv[p].existing = null
            /\ (history # <<>> /\ LastSaver = p) =>
                  /\ baselineFile.status = "ok"
                  /\ baselineFile.sessionCount = 1
                  /\ baselineFile.overallAverage = inv[p].sc.overall
                  /\ \A k \in 1..Len(inv[p].sc.categories) :
                        baselineFile.categoryAverages[inv[p].sc.categories[k].name]
                            = inv[p].sc.categories[k].score

\* ------------------------------------------------------------------------
\* Highlights
\* ------------------------------------------------------------------------

\* position of the first category, in the order of the scorecard, with score v
FirstWithScore(cs, v) ==
    CHOOSE k \in 1..Len(cs) : cs[k].score = v /\ \A j \in 1..(k - 1) : cs[j].score # v

\* C16: highlights.best is a category with the highest score and
\* highlights.worst a category with the lowest score; among several
\* categories with the highest score, and among several with the lowest, the
\* one that comes first in the canonical order is the one chosen.
C16_HighlightsFirstOnTies ==
    scorecard # NotRun =>
        LET cs == scorecard.categories
            hi == CHOOSE v \in { cs[k].score : k \in 1..Len(cs) } :
                      \A k \in 1..Len(cs) : cs[k].score <= v
            lo == CHOOSE v \in { cs[k].score : k \in 1..Len(cs) } :
                      \A k \in 1..Len(cs) : cs[k].score >= v
        IN  /\ scorecard.highlights.best.score = hi
            /\ scorecard.highlights.worst.score = lo
            /\ scorecard.highlights.best = cs[FirstWithScore(cs, hi)]
            /\ scorecard.highlights.worst = cs[FirstWithScore(cs, lo)]

\* ------------------------------------------------------------------------
\* Documented triage examples
\* ------------------------------------------------------------------------

NoKeywords(c) ==
    /\ c.skip = <<>> /\ c.alwaysCheck = <<>>
    /\ c.crossServiceKeywords = <<>> /\ c.relatedAliases = <<>>

\* C17: with a configuration that has no skip, always-check or cross-service
\* keywords and no related-project aliases, each documented example prompt is
\* given its documented level: "commit" trivial, "fix the null check in
\* src/auth/jwt.ts line 42" clear, "fix the auth bug" ambiguous, "refactor
\* auth to OAuth2 and update all API consumers" multi-step.
C17_DocumentedExamples ==
    \A e \in DocumentedExamples :
        (prompt = e[1] /\ cfg # NotRun /\ NoKeywords(cfg)) =>
            /\ triageResult.main # NotRun => triageResult.main.level = e[2]
            /\ triageResult.cfgts # NotRun => triageResult.cfgts.level = e[2]

VagueVerbReason == "contains vague verbs without specific targets"

\* C18: the standalone prompt "fix the bug", with no keyword configuration,
\* is triaged ambiguous, and its reasons include "contains vague verbs
\* without specific targets".
C18_FixTheBug ==
    (prompt = "fix the bug" /\ cfg # NotRun /\ NoKeywords(cfg)) =>
        /\ triageResult.main # NotRun =>
              /\ triageResult.main.level = "ambiguous"
              /\ VagueVerbReason \in Range(triageResult.main.reasons)
        /\ triageResult.cfgts # NotRun =>
              /\ triageResult.cfgts.level = "ambiguous"
              /\ VagueVerbReason \in Range(triageResult.cfgts.reasons)

C18_Witness ==
    /\ prompt = "fix the bug" /\ cfg # NotRun /\ NoKeywords(cfg)
    /\ TriageDone
    /\ triageResult.main.level = "ambiguous"
    /\ VagueVerbReason \in Range(triageResult.main.reasons)

\* ------------------------------------------------------------------------
\* PDF fallback
\* ------------------------------------------------------------------------

PdfFailed(p) == inv[p].steps # <<>> /\ inv[p].steps[Len(inv[p].steps)] = "pdf-failed"

EndsWith(text, tail) ==
    /\ Len(text) >= Len(tail)
    /\ SubSeq(text, Len(text) - Len(tail) + 1, Len(text)) = tail

\* C19: when PDF output was requested and generatePDF failed, the invocation
\* ends with a normal result, not an error, and the returned text ends with
\* the Markdown of the report of that invocation: the scorecard with its
\* baseline column, the trend report or the comparative report.
C19_PdfFailureFallsBackToMarkdown ==
    \A p \in DOMAIN inv :
        PdfFailed(p) =>
            /\ inv[p].pc = "done"
            /\ inv[p].result # NotRun
            /\ ~inv[p].result.isError
            /\ inv[p].params.report_type = "comparative" =>
                  EndsWith(inv[p].result.text,
                           comparativeToMarkdown(ComparativeReport(inv[p].params.period,
                                                                   inv[p].params.compare_projects)))
            /\ (inv[p].params.report_type # "comparative" /\ inv[p].trend) =>
                  EndsWith(inv[p].result.text,
                           trendToMarkdown(TrendReport("demo", inv[p].params.period,
                                                       inv[p].baseline)))
            /\ (inv[p].params.report_type # "comparative" /\ ~inv[p].trend) =>
                  EndsWith(inv[p].result.text,
                           toMarkdownWithBaseline(inv[p].sc, inv[p].response.baseline))

\* the three kinds of report have each lost their PDF
C19_Witness ==
    \E p, q, r \in DOMAIN inv :
        /\ PdfFailed(p) /\ PdfFailed(q) /\ PdfFailed(r)
        /\ ReportKind(inv[p]) = "scorecard"
        /\ ReportKind(inv[q]) = "trend"
        /\ ReportKind(inv[r]) = "comparative"
        /\ inv[p].response.baseline # null

\* ------------------------------------------------------------------------
\* From the session parser to the ParsedSession (loadSessions)
\* ------------------------------------------------------------------------

\* new Date(ts).getTime() / 60000, counted from the fallback instant
getTimeMinutes(ts) == IF ts = FallbackTs THEN 0 ELSE 47765

\* the parser's events as classifyEvents and the scorers read them
AsTimelineEvents(events) ==
    [k \in 1..Len(events) |->
        [type |-> events[k].type, content |-> events[k].content,
         timestamp |-> getTimeMinutes(events[k].timestamp),
         session_id |-> events[k].session_id, id |-> k]]

\* loadSessions for one session file: a file whose parse throws is skipped,
\* and so is a file without events
loadSessions(res) ==
    IF res.status = "threw" \/ Len(res.events) = 0 THEN <<>>
    ELSE << classifyEvents(AsTimelineEvents(res.events)) >>

LoadSessions ==
    /\ parseResult # NotRun
    /\ sessions = <<>>
    /\ sessions' = loadSessions(parseResult)
    /\ UNCHANGED <<otherVars, parserVars, triageVars, baselineVars, scorecard, categories>>

NextLoad == ParseSession \/ LoadSessions

SpecLoad == InitParse /\ [][NextLoad]_vars

InPartition(e, part) == \E k \in 1..Len(part) : part[k] = e

\* C21: in every session that the session parser produced and classifyEvents
\* grouped, each event is in the partition of its type: prompt events in
\* userMessages, assistant events in assistantMessages, commit events in
\* commits, and likewise tool_call, correction, compaction, sub_agent_spawn;
\* a session with a user prompt has a non-empty userMessages.
C21_PartitionsByType ==
    \A i \in 1..Len(sessions) :
        /\ \A k \in 1..Len(sessions[i].events) :
              \E e \in { sessions[i].events[k] } :
                /\ e.type = "prompt" => InPartition(e, sessions[i].userMessages)
                /\ e.type = "assistant" => InPartition(e, sessions[i].assistantMessages)
                /\ e.type = "commit" => InPartition(e, sessions[i].commits)
                /\ e.type = "tool_call" => InPartition(e, sessions[i].toolCalls)
                /\ e.type = "correction" => InPartition(e, sessions[i].corrections)
                /\ e.type = "compaction" => InPartition(e, sessions[i].compactions)
                /\ e.type = "sub_agent_spawn" => InPartition(e, sessions[i].subAgentSpawns)
        /\ (\E k \in 1..Len(sessions[i].events) : sessions[i].events[k].type = "prompt")
              => sessions[i].userMessages # <<>>

\* ------------------------------------------------------------------------
\* Ambiguity signals
\* ------------------------------------------------------------------------

\* no rule above the ambiguity step decides the prompt (part_010)
NoHigherRule(s, c) ==
    /\ KeywordHits(s, c.skip) = <<>>
    /\ ~isMultiStep(s)
    /\ detectCrossService(s, c) = <<>>
    /\ KeywordHits(s, c.alwaysCheck) = <<>>
    /\ ~(Len(trim(s)) < 20 /\ isTrivialCommand(s))

\* the same for src/lib/config.ts, where a bare file path is trivial too
NoHigherRule_cfgts(s, c) ==
    /\ FoundKeyword(s, c.skip) = <<>>
    /\ FoundKeyword(s, c.alwaysCheck) = <<>>
    /\ ~isMultiStep_cfgts(s)
    /\ hasCrossServiceIndicators(s, c) = <<>>
    /\ ~(Len(trim(s)) < 20 /\ isTrivialCommand_cfgts(s))
    /\ ~isFilePath(s)

UnresolvedPronouns == <<"it", "them", "this", "that", "those", "these">>

HasUnresolvedPronoun(s) ==
    \E k \in 1..Len(UnresolvedPronouns) : MatchWordI(s, UnresolvedPronouns[k])

IsAmbiguousResult(r) ==
    /\ r.level = "ambiguous"
    /\ r.confidence = 70
    /\ r.recommended_tools = <<"clarify-intent", "scope-work">>

\* C22: when no higher-priority rule fires, one ambiguity signal is enough:
\* a prompt shorter than 50 characters without a file reference, or with one
\* of the pronouns it, them, this, that, those, these, or with a vague verb
\* without a concrete target, is ambiguous with confidence 0.7 and tools
\* clarify-intent, scope-work.
C22_AnySignalIsAmbiguous ==
    /\ (triageResult.main # NotRun /\ NoHigherRule(prompt, cfg)
           /\ \/ Len(trim(prompt)) < 50 /\ ~hasFileRefs(prompt)
              \/ HasUnresolvedPronoun(prompt)
              \/ hasVagueVerbs(prompt))
          => IsAmbiguousResult(triageResult.main)
    /\ (triageResult.cfgts # NotRun /\ NoHigherRule_cfgts(prompt, cfg)
           /\ \/ Len(trim(prompt)) < 50 /\ ~hasFileReferences(prompt)
              \/ HasUnresolvedPronoun(prompt)
              \/ hasVagueVerbs_cfgts(prompt))
          => IsAmbiguousResult(triageResult.cfgts)

\* ------------------------------------------------------------------------
\* Baseline invariants
\* ------------------------------------------------------------------------

\* C23: starting from an absent baseline, with one writer at a time, the
\* stored sessionCount equals the number of updates performed, and the
\* overall average and every category average lie within 0..100.
C23_BaselineCountAndRange ==
    /\ baselineFile.status \in {"absent", "ok"}
    /\ baselineFile.status = "absent" => history = <<>>
    /\ baselineFile.status = "ok" =>
          /\ baselineFile.sessionCount = Len(history)
          /\ baselineFile.overallAverage \in 0..100
          /\ \A name \in DOMAIN baselineFile.categoryAverages :
                baselineFile.categoryAverages[name] \in 0..100

\* three updates of different overall scores, some category average strictly
\* between the extremes
C23_Witness ==
    /\ Len(history) = 3
    /\ baselineFile.status = "ok"
    /\ baselineFile.sessionCount = 3
    /\ Cardinality({ history[k].overall : k \in 1..3 }) >= 2
    /\ \E name \in DOMAIN baselineFile.categoryAverages :
          baselineFile.categoryAverages[name] \in 1..99

\* the invocation has gone through updateBaseline
ReachedUpdate(p) == \E k \in 1..Len(inv[p].steps) : inv[p].steps[k] = "update"

\* C24: in one server process the invocations cannot interleave inside
\* updateBaseline, so the stored sessionCount is the number of invocations
\* that have reached the update, however they overlap.
C24_UpdatesAreAtomic ==
    \E m \in { Cardinality({ p \in DOMAIN inv : ReachedUpdate(p) }) } :
        /\ m = 0 => baselineFile.status = "absent"
        /\ m > 0 => baselineFile.status = "ok" /\ baselineFile.sessionCount = m

\* two invocations are both suspended at generatePDF after their updates and
\* a third has updated meanwhile
C24_Witness ==
    \E p, q, r \in DOMAIN inv :
        /\ p # q /\ q # r /\ p # r
        /\ inv[p].pc = "pdf" /\ inv[q].pc = "pdf"
        /\ ReachedUpdate(p) /\ ReachedUpdate(q) /\ ReachedUpdate(r)
        /\ baselineFile.status = "ok" /\ baselineFile.sessionCount = 3

\* ------------------------------------------------------------------------
\* Neutral defaults
\* ------------------------------------------------------------------------

NeutralDefaults == {75} \cup 95..100

\* the sessions hold no event of the kind the partition collects
NoneOf(ss, partition) == \A k \in 1..Len(ss) : ss[k][partition] = <<>>

\* the category has nothing to measure in the sessions
NoApplicableEvents(name, ss) ==
    IF name \in {"Plans", "Clarification", "Follow-up Specificity", "Sequencing"}
    THEN NoneOf(ss, "userMessages")
    ELSE IF name \in {"Token Efficiency", "Cross-Session Continuity", "Verification"}
    THEN NoneOf(ss, "toolCalls")
    ELSE IF name = "Delegation" THEN NoneOf(ss, "subAgentSpawns")
    ELSE IF name = "Compaction Management" THEN NoneOf(ss, "compactions")
    ELSE IF name = "Error Recovery" THEN NoneOf(ss, "corrections")
    ELSE ss = <<>>

\* C25: a category that has no applicable events in the sessions (no user
\* prompts, no tool calls, no corrections, no sub-agent spawns, no
\* compactions, or no sessions at all) scores its neutral default, 75 or
\* 95..100, never 0.
C25_NeutralDefaults ==
    scorecard # NotRun =>
        \A k \in 1..Len(scorecard.categories) :
            NoApplicableEvents(scorecard.categories[k].name, sessions)
                => scorecard.categories[k].score \in NeutralDefaults

\* ------------------------------------------------------------------------
\* Trivial by brevity
\* ------------------------------------------------------------------------

\* no rule above the trivial step decides the prompt (part_010)
NoRuleAboveTrivial(s, c) ==
    /\ KeywordHits(s, c.skip) = <<>>
    /\ ~isMultiStep(s)
    /\ detectCrossService(s, c) = <<>>
    /\ KeywordHits(s, c.alwaysCheck) = <<>>

\* the same for src/lib/config.ts
NoRuleAboveTrivial_cfgts(s, c) ==
    /\ FoundKeyword(s, c.skip) = <<>>
    /\ FoundKeyword(s, c.alwaysCheck) = <<>>
    /\ ~isMultiStep_cfgts(s)
    /\ hasCrossServiceIndicators(s, c) = <<>>

\* shorter than 20 characters and exactly a trivial command
IsShortCommand(s) ==
    /\ Len(trim(s)) < 20
    /\ \E k \in 1..Len(TRIVIAL_COMMANDS) : lower(s) = TRIVIAL_COMMANDS[k]

\* C26: when no higher-priority rule (skip, multi-step, cross-service,
\* always-check) fires, a prompt shorter than 20 characters that is exactly
\* a trivial command is trivial, and so is a prompt that is just a bare file
\* path.
C26_TrivialByBrevity ==
    /\ (triageResult.main # NotRun /\ NoRuleAboveTrivial(prompt, cfg)
           /\ (IsShortCommand(prompt) \/ isFilePath(prompt)))
          => triageResult.main.level = "trivial"
    /\ (triageResult.cfgts # NotRun /\ NoRuleAboveTrivial_cfgts(prompt, cfg)
           /\ (IsShortCommand(prompt) \/ isFilePath(prompt)))
          => triageResult.cfgts.level = "trivial"

\* ------------------------------------------------------------------------
\* Vague verbs and concrete targets
\* ------------------------------------------------------------------------

\* a word is concrete: it contains a file extension, or a capital letter, or
\* is longer than 6 characters
IsConcrete(w) == HasDotWord(w) \/ HasUpper(w) \/ Len(w) > 6

\* some vague verb of the list occurs as a word and none of the three words
\* after its first occurrence is concrete
VagueVerbWithoutTarget(s, verbs) ==
    \E words \in { SplitWs(trim(s)) } :
        \E v \in 1..Len(verbs) :
            \E idx \in { IndexOf([k \in 1..Len(words) |-> toLowerCase(words[k])], verbs[v]) } :
                /\ idx # 0
                /\ ~ \E k \in (idx + 1)..Min(idx + 3, Len(words)) : IsConcrete(words[k])

\* C27: a vague verb (fix, update, change) is an ambiguity signal exactly
\* when none of the three words after it is concrete, a word being concrete
\* when it contains a file extension, or is capitalized, or is longer than 6
\* characters: on a prompt that reaches the ambiguity step, the vague-verb
\* reason is reported exactly in that case.
C27_VagueVerbTargets ==
    /\ (triageResult.main # NotRun /\ NoHigherRule(prompt, cfg)) =>
          (VagueVerbReason \in Range(triageResult.main.reasons)
              <=> VagueVerbWithoutTarget(prompt, VAGUE_VERBS))
    /\ (triageResult.cfgts # NotRun /\ NoHigherRule_cfgts(prompt, cfg)) =>
          (VagueVerbReason \in Range(triageResult.cfgts.reasons)
              <=> VagueVerbWithoutTarget(prompt, VAGUE_VERBS))

\* ------------------------------------------------------------------------
\* Trend report (unnamed/part_011, buildTrendReport)
\* A DailyScore is a day and the category scores of the day's scorecard;
\* scoreDailyData returns one per day that has a session, in date order.
\* Averages the code holds as floats are kept as a sum and a divisor.
\* ------------------------------------------------------------------------

DailyScore(day, cats) == [date |-> day, categories |-> cats]

\* d.categories.find((c) => c.name === name)?.score ?? 0
dayScore(d, name) ==
    IF \E k \in 1..Len(d.categories) : d.categories[k].name = name
    THEN d.categories[CHOOSE k \in 1..Len(d.categories) : d.categories[k].name = name].score
    ELSE 0

\* half.reduce((s, d) => s + score of the category, 0)
halfSum(half, name) == SumSeq([k \in 1..Len(half) |-> dayScore(half[k], name)])

\* half.length || 1
halfDivisor(half) == IF Len(half) = 0 THEN 1 ELSE Len(half)

\* trendArrow(avgSecond, avgFirst) on the unrounded averages
\* sumS / divS and sumF / divF
trendArrowOfMeans(sumS, divS, sumF, divF) ==
    IF sumS * divF - sumF * divS > 5 * divS * divF THEN "^"
    ELSE IF sumS * divF - sumF * divS < -5 * divS * divF THEN "v"
    ELSE "="

\* dailyScores.slice(from, to) with 0-based from and exclusive to
slice(q, from, to) == SubSeq(q, Min(from, Len(q)) + 1, Min(to, Len(q)))

buildTrendReport(ds, baseline) ==
    CHOOSE r \in
      { [dailyScores |-> ds,
         firstHalf |-> firstHalf,
         secondHalf |-> slice(ds, Max(1, Len(ds) \div 2), Len(ds)),
         categoryTrends |->
             IF ds = <<>> THEN <<>>
             ELSE [k \in 1..Len(ds[1].categories) |->
                     CHOOSE t \in
                       { [name |-> name,
                          current |-> MathRound(halfSum(secondHalf, name), halfDivisor(secondHalf)),
                          previous |-> MathRound(halfSum(firstHalf, name), halfDivisor(firstHalf)),
                          arrow |-> trendArrowOfMeans(halfSum(secondHalf, name),
                                                      halfDivisor(secondHalf),
                                                      halfSum(firstHalf, name),
                                                      halfDivisor(firstHalf))] :
                           name \in { ds[1].categories[k].name },
                           secondHalf \in { slice(ds, Max(1, Len(ds) \div 2), Len(ds)) } } : TRUE],
         baseline |-> baseline] :
          firstHalf \in { slice(ds, 0, Max(1, Len(ds) \div 2)) } } : TRUE

\* the category scores of a day: the first six categories at one level, the
\* other six at another
DayVectors ==
    { [k \in 1..Len(CategoryOrder) |->
          CategoryScore(CategoryOrder[k], IF k <= 6 THEN a ELSE b)] : a, b \in {40, 90} }

DailyScoreLists ==
    { [k \in 1..Len(q) |-> DailyScore(k, q[k])] : q \in SeqsUpTo(DayVectors, MaxDays) \ { <<>> } }

BuildTrend ==
    /\ trendReport = NotRun
    /\ trendReport' = buildTrendReport(dailyScores, null)
    /\ UNCHANGED <<parserVars, triageVars, scoreVars, baselineVars, dailyScores,
                   timelineVars, hookVars>>

InitTrend ==
    /\ dailyScores \in DailyScoreLists
    /\ trendReport = NotRun
    /\ ParserIdle /\ TriageIdle /\ ScoreIdle /\ BaselineIdle
    /\ TimelineIdle /\ HookIdle

NextTrend == BuildTrend

SpecTrend == InitTrend /\ [][NextTrend]_vars

DatesOf(half) == { half[k].date : k \in 1..Len(half) }

\* C28: in every trendReport report over one or more days the first half and the
\* second half of the days are disjoint, together hold every day, and are
\* both non-empty, so that neither of the two averages compared for a
\* category is the average of no day at all.
C28_TrendHalves ==
    trendReport # NotRun =>
        /\ DatesOf(trendReport.firstHalf) \cap DatesOf(trendReport.secondHalf) = {}
        /\ DatesOf(trendReport.firstHalf) \cup DatesOf(trendReport.secondHalf) = DatesOf(dailyScores)
        /\ trendReport.firstHalf # <<>>
        /\ trendReport.secondHalf # <<>>

\* ------------------------------------------------------------------------
\* onboard_project and the timeline database
\* (mcp-server/src/tools/onboard-project.ts, mcp-server/src/lib/timeline-db.ts,
\* parseAllSessions, extractGitHistory).  A path is the sequence of its
\* "/"-separated parts, so "/work/app" is <<"", "work", "app">> and its
\* basename "app" is <<"app">>.  A timestamp is a number of ticks after
\* 1970-01-01T00:00:00Z.  The project has one session file, and every commit
\* is by the configured git user, so the author filter keeps all of them.
\* ------------------------------------------------------------------------

ProjectDir == <<"", "work", "app">>

\* path.basename(project_dir)
basename(p) == <<p[Len(p)]>>

\* an undefined `since`
NoDate == -1

SessionFile == "session.jsonl"

\* the event parseLinesSync makes of line `line` of the session file;
\* inferProject decodes the session directory "-work-app" to "/work/app"
sessionEvent(line, ts) ==
    [source_file |-> SessionFile, source_line |-> line, timestamp |-> ts,
     type |-> "prompt", project |-> ProjectDir]

\* the event parseGitOutput makes of the commit with hash `hash`
commitEvent(hash, ts) ==
    [source_file |-> "git:" \o ToString(hash), source_line |-> 0, timestamp |-> ts,
     type |-> "commit", project |-> ProjectDir]

\* parseAllSessions: a file whose mtime is before `since` is skipped, any
\* other file is parsed whole; the mtime of the file is the time of its
\* latest line
parseAllSessions(log, since) ==
    IF log = <<>> THEN <<>>
    ELSE IF since # NoDate /\ log[Len(log)] < since THEN <<>>
    ELSE [k \in 1..Len(log) |-> sessionEvent(k, log[k])]

\* extractGitHistory: git log --all [--since=<date>]
extractGitHistory(log, since) ==
    SelectSeq([k \in 1..Len(log) |-> commitEvent(k, log[k])],
              LAMBDA e : since = NoDate \/ e.timestamp >= since)

\* getLastIndexedTimestamp(project, source); null is NoDate
getLastIndexedTimestamp(config, project, source) ==
    IF project \notin DOMAIN config THEN NoDate
    ELSE IF source = "session" THEN config[project].last_session_index
    ELSE config[project].last_git_index

\* the body of insertEvents' loop over the records
countRecord(config, r) ==
    CHOOSE c \in
      { [k \in DOMAIN known |->
            IF k = r.project
            THEN [known[k] EXCEPT !.event_count = @ + 1]
            ELSE known[k]] :
          known \in
            { IF r.project \in DOMAIN config THEN config
              ELSE [k \in DOMAIN config \cup {r.project} |->
                      IF k = r.project
                      THEN [last_session_index |-> r.timestamp,
                            last_git_index |-> 0,
                            event_count |-> 0]
                      ELSE config[k]] } } : TRUE

RECURSIVE countRecords(_, _)
countRecords(config, records) ==
    IF records = <<>> THEN config
    ELSE countRecords(countRecord(config, Head(records)), Tail(records))

\* insertEvents: table.add(records), then the event counts in the config
insertEvents(rows, config, events) ==
    IF events = <<>> THEN [table |-> rows, config |-> config]
    ELSE [table |-> rows \o events, config |-> countRecords(config, events)]

\* table.delete(`project = "${projectName}"`)
deleteProject(rows, projectName) ==
    SelectSeq(rows, LAMBDA r : r.project # projectName)

\* thisProject?.event_count ?? allEvents.length
totalEvents(config, projectName, inserted) ==
    IF projectName \in DOMAIN config THEN config[projectName].event_count ELSE inserted

SourceSize == Len(sessionLog) + Len(gitLog)

\* the onboard_project handler with the default embedding_provider and
\* git_depth and no git_since or git_authors
onboardProject(rows, config, reindex) ==
    CHOOSE out \in
      { IF allEvents = <<>>
        THEN [table |-> kept, config |-> config, inserted |-> 0, total |-> 0]
        ELSE CHOOSE o \in
               { [table |-> done.table, config |-> done.config,
                  inserted |-> Len(allEvents),
                  total |-> totalEvents(done.config, basename(ProjectDir), Len(allEvents))] :
                   done \in { insertEvents(kept, config, allEvents) } } : TRUE :
          kept \in { IF reindex THEN deleteProject(rows, basename(ProjectDir)) ELSE rows },
          allEvents \in
            { parseAllSessions(sessionLog,
                  IF reindex THEN NoDate
                  ELSE getLastIndexedTimestamp(config, basename(ProjectDir), "session"))
              \o extractGitHistory(gitLog,
                  IF reindex THEN NoDate
                  ELSE getLastIndexedTimestamp(config, basename(ProjectDir), "git")) } } : TRUE

\* a line is appended to the project's session file
AppendSessionLine ==
    /\ clock < MaxClock
    /\ clock' = clock + 1
    /\ sessionLog' = Append(sessionLog, clock + 1)
    /\ UNCHANGED <<parserVars, triageVars, scoreVars, baselineVars, trendVars, hookVars,
                   gitLog, table, indexed_projects, lastRun>>

\* a commit is made in the project
GitCommit ==
    /\ clock < MaxClock
    /\ clock' = clock + 1
    /\ gitLog' = Append(gitLog, clock + 1)
    /\ UNCHANGED <<parserVars, triageVars, scoreVars, baselineVars, trendVars, hookVars,
                   sessionLog, table, indexed_projects, lastRun>>

RunsSoFar == IF lastRun = NotRun THEN 0 ELSE lastRun.run

OnboardProject(reindex) ==
    /\ RunsSoFar < MaxRuns
    /\ \E out \in { onboardProject(table, indexed_projects, reindex) } :
          /\ table' = out.table
          /\ indexed_projects' = out.config
          /\ lastRun' = [run |-> RunsSoFar + 1,
                         everReindexed |-> reindex \/ (lastRun # NotRun /\ lastRun.everReindexed),
                         seen |-> SourceSize,
                         added |-> SourceSize - (IF lastRun = NotRun THEN 0 ELSE lastRun.seen),
                         inserted |-> out.inserted,
                         total |-> out.total]
    /\ UNCHANGED <<parserVars, triageVars, scoreVars, baselineVars, trendVars, hookVars,
                   clock, sessionLog, gitLog>>

InitOnboard ==
    /\ TimelineIdle
    /\ ParserIdle /\ TriageIdle /\ ScoreIdle /\ BaselineIdle
    /\ TrendIdle /\ HookIdle

NextOnboard ==
    \/ AppendSessionLine
    \/ GitCommit
    \/ \E reindex \in BOOLEAN : OnboardProject(reindex)

SpecOnboard == InitOnboard /\ [][NextOnboard]_vars

\* the source record a row of the table was made from
SourceOf(r) == <<r.source_file, r.source_line>>

StoredSources == { SourceOf(table[k]) : k \in 1..Len(table) }

EventCount(project) ==
    IF project \in DOMAIN indexed_projects THEN indexed_projects[project].event_count ELSE 0

\* C29: as long as every onboard_project run had reindex = false, a run made
\* when no session line or commit was added since the previous run inserts
\* no event, every source record (session line or commit) is stored at most
\* once in the events table, and the project's event_count is the number of
\* distinct source records stored.
C29_OnboardIsIdempotent ==
    (lastRun # NotRun /\ ~lastRun.everReindexed) =>
        /\ lastRun.added = 0 => lastRun.inserted = 0
        /\ \A i, j \in 1..Len(table) : SourceOf(table[i]) = SourceOf(table[j]) => i = j
        /\ EventCount(ProjectDir) = Cardinality(StoredSources)

\* ------------------------------------------------------------------------
\* The session-health hook (session-health.sh), run after every tool call of
\* a session.  Each run is a process of its own; the script's commands are
\* its steps, and runs for the same session share the counter file.
\* ------------------------------------------------------------------------

Thresholds == {100, 200, 300}

AbsentFile == [state |-> "absent"]
EmptyFile == [state |-> "empty"]
CountFile(n) == [state |-> "text", n |-> n]

HookProcs == 1..MaxHooks

HookAt(pc, count) == [pc |-> pc, COUNT |-> count]

\* COUNT=$(cat "$COUNTER_FILE"); COUNT=$((COUNT + 1)): an empty COUNT
\* evaluates to 0
countAfterRead(f) == IF f.state = "text" THEN f.n + 1 ELSE 1

\* the counter file and the messages after n runs made one after another
AfterSequentialRuns(n) ==
    /\ counterFile = IF n = 0 THEN AbsentFile ELSE CountFile(n)
    /\ hookStarted = n
    /\ hookExited = n
    /\ emitted = [t \in Thresholds |-> IF n >= t THEN 1 ELSE 0]

\* the numbers of earlier runs the model starts from
StartCounts == {0, 98, 198, 298}

\* a tool call ends and the hook is started: INPUT=$(cat)
HookStart(p) ==
    /\ hook[p].pc = "idle"
    /\ \E k \in StartCounts : hookStarted \in k..(k + MaxCalls - 1)
    /\ hook' = [hook EXCEPT ![p] = HookAt("test", 0)]
    /\ hookStarted' = hookStarted + 1
    /\ UNCHANGED <<parserVars, triageVars, scoreVars, baselineVars, trendVars, timelineVars,
                   counterFile, hookExited, emitted>>

\* if [[ -f "$COUNTER_FILE" ]] ... else COUNT=1
HookTest(p) ==
    /\ hook[p].pc = "test"
    /\ hook' = [hook EXCEPT ![p] =
                  IF counterFile.state = "absent" THEN HookAt("open", 1) ELSE HookAt("read", 0)]
    /\ UNCHANGED <<parserVars, triageVars, scoreVars, baselineVars, trendVars, timelineVars,
                   counterFile, hookStarted, hookExited, emitted>>

\* COUNT=$(cat "$COUNTER_FILE"); COUNT=$((COUNT + 1))
HookRead(p) ==
    /\ hook[p].pc = "read"
    /\ hook' = [hook EXCEPT ![p] = HookAt("open", countAfterRead(counterFile))]
    /\ UNCHANGED <<parserVars, triageVars, scoreVars, baselineVars, trendVars, timelineVars,
                   counterFile, hookStarted, hookExited, emitted>>

\* > "$COUNTER_FILE": the redirection creates or truncates the file
HookOpen(p) ==
    /\ hook[p].pc = "open"
    /\ counterFile' = EmptyFile
    /\ hook' = [hook EXCEPT ![p] = HookAt("write", hook[p].COUNT)]
    /\ UNCHANGED <<parserVars, triageVars, scoreVars, baselineVars, trendVars, timelineVars,
                   hookStarted, hookExited, emitted>>

\* echo "$COUNT"
HookWrite(p) ==
    /\ hook[p].pc = "write"
    /\ counterFile' = CountFile(hook[p].COUNT)
    /\ hook' = [hook EXCEPT ![p] = HookAt("report", hook[p].COUNT)]
    /\ UNCHANGED <<parserVars, triageVars, scoreVars, baselineVars, trendVars, timelineVars,
                   hookStarted, hookExited, emitted>>

\* the threshold messages, then exit 0
HookReport(p) ==
    /\ hook[p].pc = "report"
    /\ emitted' = [t \in Thresholds |->
                      IF hook[p].COUNT = t THEN emitted[t] + 1 ELSE emitted[t]]
    /\ hookExited' = hookExited + 1
    /\ hook' = [hook EXCEPT ![p] = HookAt("idle", 0)]
    /\ UNCHANGED <<parserVars, triageVars, scoreVars, baselineVars, trendVars, timelineVars,
                   counterFile, hookStarted>>

InitHook ==
    /\ \E n \in StartCounts : AfterSequentialRuns(n)
    /\ hook = [p \in HookProcs |-> HookAt("idle", 0)]
    /\ ParserIdle /\ TriageIdle /\ ScoreIdle /\ BaselineIdle
    /\ TrendIdle /\ TimelineIdle

NextHook ==
    \E p \in HookProcs :
        \/ HookStart(p)
        \/ HookTest(p)
        \/ HookRead(p)
        \/ HookOpen(p)
        \/ HookWrite(p)
        \/ HookReport(p)

SpecHook == InitHook /\ [][NextHook]_vars

NoHookRunning == \A p \in HookProcs : hook[p].pc = "idle"

\* C30: no threshold message is ever printed twice, and whenever no run of
\* the hook is in progress the counter file holds the number of runs made so
\* far and the message of each threshold (100, 200, 300) has been printed
\* exactly once if that many runs were made and not at all otherwise -- also
\* when runs for the same session overlap.
C30_CounterAndThresholds ==
    /\ \A t \in Thresholds : emitted[t] <= 1
    /\ NoHookRunning =>
          /\ counterFile = IF hookExited = 0 THEN AbsentFile ELSE CountFile(hookExited)
          /\ \A t \in Thresholds : emitted[t] = IF hookExited >= t THEN 1 ELSE 0

====
